---- MODULE Spec2Model ----
(***************************************************************************)
(* AI request orchestration and rule-augmented analysis layer of the       *)
(* weekly planner backend: the provider fallback chain of                  *)
(* backend/AI/aiAPI.js, the three provider adapters, and the rule engines  *)
(* built on top of them.                                                   *)
(***************************************************************************)
EXTENDS Naturals, Integers, Sequences, FiniteSets, TLC

VARIABLES
  AI_PROVIDER,  \* process.env.AI_PROVIDER as set in the environment
  apiKeys,      \* providers whose API key is set in process.env
  req,          \* the entry point that was called, with its arguments
  pc,           \* position of the callAI invocation
  idx,          \* index of the current element of `providers` in the for-loop
  attempted,    \* providers whose case branch of the switch was entered
  invoked,      \* providers whose adapter callAI called
  requests,     \* fetch() requests sent to each provider
  caught,       \* errors caught by callAI's catch block, in order
  returned,     \* what each adapter returned to callAI
  aiResult,     \* how the callAI invocation settled
  claude,       \* how the engine's evaluation of callClaude(...) ended
  calls,        \* the calls of callAI and callClaude made so far, in order
  inv,          \* the locals of each of the callAI invocations running side by side
  result        \* what the entry point resolved with, once it has

vars == <<AI_PROVIDER, apiKeys, req, pc, idx, attempted, invoked, requests,
          caught, returned, aiResult, claude, calls, inv, result>>

----------------------------------------------------------------------------
(* Bounds of the model *)

\* longest text a provider envelope carries
MaxTextLen == 2
\* the request counter of a provider stops counting here
MaxRequests == 3
\* largest missedCount passed to suggestTaskDowngrade
MaxMissed == 2
\* largest editCount and daysInactive passed to checkOverthinking
MaxEditCount == 10
MaxDaysInactive == 7
\* most tasks a weekly plan puts on one day
MaxPerDay == 4
\* largest missedCount passed to shouldSuggestDowngrade
MaxMissedCount == 5
\* most lines of an AI response handed to a parser
MaxLines == 3
\* largest task count in the week data of a reflection
MaxWeekTasks == 3
\* most callAI invocations one after the other
MaxCalls == 2

----------------------------------------------------------------------------
(* Texts: sequences of characters, so that trim() is computed *)

Chars == {" ", "a"}

Texts == UNION {[1..n -> Chars] : n \in 0..MaxTextLen}

RECURSIVE TrimStart(_)
TrimStart(s) ==
  IF s # <<>> /\ Head(s) = " " THEN TrimStart(Tail(s)) ELSE s

RECURSIVE TrimEnd(_)
TrimEnd(s) ==
  IF s # <<>> /\ s[Len(s)] = " " THEN TrimEnd(SubSeq(s, 1, Len(s) - 1)) ELSE s

\* String.prototype.trim
Trim(s) == TrimEnd(TrimStart(s))

----------------------------------------------------------------------------
(* aiAPI.js: provider order and override *)

PROVIDER_ORDER == <<"gemini", "groq", "huggingface">>

KnownProviders == {PROVIDER_ORDER[i] : i \in 1..Len(PROVIDER_ORDER)}

Undefined == "undefined"

\* values of the AI_PROVIDER environment variable
EnvValues == {Undefined, "", "gemini", "Groq", "HUGGINGFACE", "claude"}

\* String.prototype.toLowerCase on the environment values
toLowerCase(s) ==
  CASE s = "Groq" -> "groq"
    [] s = "HUGGINGFACE" -> "huggingface"
    [] OTHER -> s

\* process.env.AI_PROVIDER?.toLowerCase()
PRIMARY_PROVIDER ==
  IF AI_PROVIDER = Undefined THEN Undefined ELSE toLowerCase(AI_PROVIDER)

\* JavaScript truthiness of an optional string
Truthy(s) == s # Undefined /\ s # ""

Filter(seq, drop) == SelectSeq(seq, LAMBDA p : p # drop)

\* variant of providers: the override is not filtered out of the rest
ProvidersNoFilter ==
  IF Truthy(PRIMARY_PROVIDER)
    THEN <<PRIMARY_PROVIDER>> \o PROVIDER_ORDER
    ELSE PROVIDER_ORDER

\* variant of providers: the override is used as written, not lower-cased
ProvidersCaseSensitive ==
  IF Truthy(AI_PROVIDER)
    THEN <<AI_PROVIDER>> \o Filter(PROVIDER_ORDER, AI_PROVIDER)
    ELSE PROVIDER_ORDER

\* const providers = PRIMARY_PROVIDER ? [PRIMARY_PROVIDER, ...rest] : PROVIDER_ORDER
providers ==
  IF Truthy(PRIMARY_PROVIDER)
    THEN <<PRIMARY_PROVIDER>> \o Filter(PROVIDER_ORDER, PRIMARY_PROVIDER)
    ELSE PROVIDER_ORDER

AllUnavailable == "All free AI providers are currently unavailable"

----------------------------------------------------------------------------
(* Provider responses and the adapters *)

Resp(s, j, e, t) == [status |-> s, json |-> j, error |-> e, text |-> t]

\* error strings of a provider's error envelope
ErrorBodies == {"Model is currently loading", "Rate limit reached"}

\* what fetch() can produce: a rejected request, a non-ok response with or
\* without a JSON body, an ok response with or without a JSON body
Responses ==
  {Resp("network", FALSE, "", <<>>), Resp("error", FALSE, "", <<>>),
   Resp("ok", FALSE, "", <<>>)}
  \cup {Resp("error", TRUE, e, <<>>) : e \in ErrorBodies}
  \cup {Resp("ok", TRUE, "", t) : t \in Texts}

\* errorData.error?.includes('loading')
IncludesLoading(e) == e = "Model is currently loading"

Return(t) == [kind |-> "return", text |-> t, error |-> ""]
Throw(e) == [kind |-> "throw", text |-> <<>>, error |-> e]
Retry == [kind |-> "retry", text |-> <<>>, error |-> ""]

\* callGemini and callGroq after fetch(): same shape in both files
ChatAdapter(r) ==
  CASE r.status = "network" -> Throw("network")
    [] ~r.json -> Throw("parse")
    [] r.status = "error" -> Throw("http")
    [] r.text = <<>> -> Throw("empty")
    [] OTHER -> Return(Trim(r.text))

\* variant of callGemini: an error that mentions loading is retried
callGeminiRetriesLoading(r) ==
  IF r.status = "error" /\ r.json /\ IncludesLoading(r.error) THEN Retry ELSE ChatAdapter(r)

callGemini(r) == ChatAdapter(r)

callGroq(r) == ChatAdapter(r)

\* callHuggingFace after fetch()
callHuggingFace(r) ==
  CASE r.status = "network" -> Throw("network")
    [] ~r.json -> Throw("parse")
    [] r.status = "error" /\ IncludesLoading(r.error) -> Retry
    [] r.status = "error" -> Throw("http")
    [] r.text = <<>> -> Throw("empty")
    [] OTHER -> Return(Trim(r.text))

Adapter(p, r) ==
  CASE p = "gemini" -> callGemini(r)
    [] p = "groq" -> callGroq(r)
    [] p = "huggingface" -> callHuggingFace(r)

----------------------------------------------------------------------------
(* callAI *)

Pending == [type |-> "pending", text |-> <<>>, error |-> ""]
Resolved(t) == [type |-> "text", text |-> t, error |-> ""]
Rejected(e) == [type |-> "error", text |-> <<>>, error |-> e]

NotReturned == [ok |-> FALSE, text |-> <<>>]

\* variant of Iteration: the adapter's text is not returned from the loop
IterationMissingReturn(o) == [kind |-> "next", text |-> <<>>, error |-> o.error]

\* variant of Iteration: the adapter's error is not caught
IterationNoCatch(o) ==
  IF o.kind = "return"
    THEN [kind |-> "return", text |-> o.text, error |-> ""]
    ELSE [kind |-> "throw", text |-> <<>>, error |-> o.error]

\* variant of Iteration: an error raised while reading the body is not caught
IterationParseEscapes(o) ==
  IF o.kind = "return"
    THEN [kind |-> "return", text |-> o.text, error |-> ""]
    ELSE IF o.error = "parse"
      THEN [kind |-> "throw", text |-> <<>>, error |-> o.error]
      ELSE [kind |-> "next", text |-> <<>>, error |-> o.error]

\* one pass of the loop body once the adapter settled: `return await ...`
\* leaves callAI, the catch block logs the error and the loop goes on
Iteration(o) ==
  IF o.kind = "return"
    THEN [kind |-> "return", text |-> o.text, error |-> ""]
    ELSE [kind |-> "next", text |-> <<>>, error |-> o.error]

Count(n) == IF n < MaxRequests THEN n + 1 ELSE n

\* variant of KeyMissing: the key is not looked at
KeyNotChecked(p) == FALSE

\* !process.env.GEMINI_API_KEY and the like, in the case branch of p
KeyMissing(p) == p \notin apiKeys

\* prompts, as sequences of pieces of text, and token limits passed to callAI
Prompts == {<<"Plan my week">>, <<"Why did I miss tasks?">>}
TokenLimits == {1000, 1500}

\* variant of EnterCallAI: the loop resumes where the last invocation stopped
EnterCallAIResume(prompt, maxTokens) ==
  /\ pc' = "loop"
  /\ idx' = IF idx = 0 THEN 1 ELSE idx
  /\ attempted' = <<>>
  /\ invoked' = <<>>
  /\ requests' = [p \in KnownProviders |-> 0]
  /\ caught' = <<>>
  /\ returned' = [p \in KnownProviders |-> NotReturned]
  /\ aiResult' = Pending
  /\ calls' = Append(calls, [callee |-> "callAI", prompt |-> prompt,
                             maxTokens |-> maxTokens])

\* callAI is entered: the locals of the invocation are fresh
EnterCallAI(prompt, maxTokens) ==
  /\ pc' = "loop"
  /\ idx' = 1
  /\ attempted' = <<>>
  /\ invoked' = <<>>
  /\ requests' = [p \in KnownProviders |-> 0]
  /\ caught' = <<>>
  /\ returned' = [p \in KnownProviders |-> NotReturned]
  /\ aiResult' = Pending
  /\ calls' = Append(calls, [callee |-> "callAI", prompt |-> prompt,
                             maxTokens |-> maxTokens])

\* the head of the loop body: the switch over the provider name
AttemptProvider ==
  /\ pc = "loop"
  /\ idx <= Len(providers)
  /\ LET p == providers[idx] IN
       CASE p \notin KnownProviders ->
              \* default: continue
              /\ idx' = idx + 1
              /\ UNCHANGED <<pc, attempted, invoked, requests, caught>>
         [] p \in KnownProviders /\ KeyMissing(p) ->
              \* throw new Error('... API key missing'), caught below
              /\ attempted' = Append(attempted, p)
              /\ caught' = Append(caught, [provider |-> p, error |-> "keyMissing"])
              /\ idx' = idx + 1
              /\ UNCHANGED <<pc, invoked, requests>>
         [] OTHER ->
              \* the adapter is called and sends its request
              /\ attempted' = Append(attempted, p)
              /\ invoked' = Append(invoked, p)
              /\ requests' = [requests EXCEPT ![p] = Count(@)]
              /\ pc' = "awaiting"
              /\ UNCHANGED <<idx, caught>>
  /\ UNCHANGED <<AI_PROVIDER, apiKeys, inv, req, returned, aiResult, claude, calls, result>>

\* the provider answers the pending request
ProviderResponds ==
  /\ pc = "awaiting"
  /\ \E r \in Responses :
       LET p == providers[idx]
           o == Adapter(p, r)
           it == Iteration(o)
       IN
       IF o.kind = "retry"
         THEN /\ pc' = "backoff"
              /\ UNCHANGED <<idx, caught, returned, aiResult>>
         ELSE /\ returned' = IF o.kind = "return"
                               THEN [returned EXCEPT ![p] = [ok |-> TRUE, text |-> o.text]]
                               ELSE returned
              /\ CASE it.kind = "return" ->
                        /\ aiResult' = Resolved(it.text)
                        /\ pc' = "done"
                        /\ UNCHANGED <<idx, caught>>
                   [] it.kind = "next" ->
                        /\ caught' = IF o.kind = "throw"
                                       THEN Append(caught, [provider |-> p, error |-> it.error])
                                       ELSE caught
                        /\ idx' = idx + 1
                        /\ pc' = "loop"
                        /\ UNCHANGED aiResult
                   [] OTHER ->
                        /\ aiResult' = Rejected(it.error)
                        /\ pc' = "done"
                        /\ UNCHANGED <<idx, caught>>
  /\ UNCHANGED <<AI_PROVIDER, apiKeys, inv, req, attempted, invoked, requests, claude,
                 calls, result>>

\* setTimeout(resolve, 20000) fires and callHuggingFace calls itself
BackoffElapses ==
  /\ pc = "backoff"
  /\ requests' = [requests EXCEPT !["huggingface"] = Count(@)]
  /\ pc' = "awaiting"
  /\ UNCHANGED <<AI_PROVIDER, apiKeys, inv, req, idx, attempted, invoked, caught,
                 returned, aiResult, claude, calls, result>>

\* the loop ran out of providers
ThrowAllUnavailable ==
  /\ pc = "loop"
  /\ idx > Len(providers)
  /\ aiResult' = Rejected(AllUnavailable)
  /\ pc' = "done"
  /\ UNCHANGED <<AI_PROVIDER, apiKeys, inv, req, idx, attempted, invoked, requests,
                 caught, returned, claude, calls, result>>

----------------------------------------------------------------------------
(* callAI invocations running side by side: each has the locals of callAI *)
(* for itself, and every step is the step of callAI above on those locals *)

Invocations == {"A", "B"}

LocalIdle ==
  [pc |-> "idle", idx |-> 0, attempted |-> <<>>, invoked |-> <<>>,
   requests |-> [p \in KnownProviders |-> 0], caught |-> <<>>,
   returned |-> [p \in KnownProviders |-> NotReturned], aiResult |-> Pending]

LocalStart == [LocalIdle EXCEPT !.pc = "loop", !.idx = 1]

\* variant of LoopPosition: one loop position for all invocations
SharedLoopPosition(i) ==
  CHOOSE n \in {inv[j].idx : j \in Invocations} :
    \A j \in Invocations : inv[j].idx <= n

\* for (const provider of providers): the iterator of invocation i
LoopPosition(i) == inv[i].idx

\* the head of the loop body, on the locals l at the given loop position
AttemptOf(l, position) ==
  LET p == providers[position] IN
  CASE p \notin KnownProviders ->
         [l EXCEPT !.idx = position + 1]
    [] p \in KnownProviders /\ KeyMissing(p) ->
         [l EXCEPT !.attempted = Append(@, p),
                   !.caught = Append(@, [provider |-> p, error |-> "keyMissing"]),
                   !.idx = position + 1]
    [] OTHER ->
         [l EXCEPT !.attempted = Append(@, p),
                   !.invoked = Append(@, p),
                   !.requests[p] = Count(@),
                   !.pc = "awaiting",
                   !.idx = position]

\* the provider's answer r arrives
RespondOf(l, position, r) ==
  LET p == providers[position]
      o == Adapter(p, r)
      it == Iteration(o)
      l1 == IF o.kind = "return"
              THEN [l EXCEPT !.returned[p] = [ok |-> TRUE, text |-> o.text]]
              ELSE l
  IN
  IF o.kind = "retry" THEN [l EXCEPT !.pc = "backoff", !.idx = position]
  ELSE CASE it.kind = "return" ->
              [l1 EXCEPT !.aiResult = Resolved(it.text), !.pc = "done", !.idx = position]
         [] it.kind = "next" ->
              [l1 EXCEPT !.caught = IF o.kind = "throw"
                                      THEN Append(@, [provider |-> p, error |-> it.error])
                                      ELSE @,
                         !.idx = position + 1,
                         !.pc = "loop"]
         [] OTHER ->
              [l1 EXCEPT !.aiResult = Rejected(it.error), !.pc = "done", !.idx = position]

BackoffOf(l) == [l EXCEPT !.requests["huggingface"] = Count(@), !.pc = "awaiting"]

ExhaustOf(l) == [l EXCEPT !.aiResult = Rejected(AllUnavailable), !.pc = "done"]

ConcurrentCallAI ==
  /\ \E i \in Invocations :
       /\ inv[i].pc = "idle"
       /\ inv' = [inv EXCEPT ![i] = LocalStart]
  /\ UNCHANGED <<AI_PROVIDER, apiKeys, req, pc, idx, attempted, invoked, requests,
                 caught, returned, aiResult, claude, calls, result>>

ConcurrentAttempt ==
  /\ \E i \in Invocations :
       /\ inv[i].pc = "loop"
       /\ LoopPosition(i) <= Len(providers)
       /\ inv' = [inv EXCEPT ![i] = AttemptOf(inv[i], LoopPosition(i))]
  /\ UNCHANGED <<AI_PROVIDER, apiKeys, req, pc, idx, attempted, invoked, requests,
                 caught, returned, aiResult, claude, calls, result>>

ConcurrentResponds ==
  /\ \E i \in Invocations, r \in Responses :
       /\ inv[i].pc = "awaiting"
       /\ inv' = [inv EXCEPT ![i] = RespondOf(inv[i], LoopPosition(i), r)]
  /\ UNCHANGED <<AI_PROVIDER, apiKeys, req, pc, idx, attempted, invoked, requests,
                 caught, returned, aiResult, claude, calls, result>>

ConcurrentBackoff ==
  /\ \E i \in Invocations :
       /\ inv[i].pc = "backoff"
       /\ inv' = [inv EXCEPT ![i] = BackoffOf(inv[i])]
  /\ UNCHANGED <<AI_PROVIDER, apiKeys, req, pc, idx, attempted, invoked, requests,
                 caught, returned, aiResult, claude, calls, result>>

ConcurrentExhaust ==
  /\ \E i \in Invocations :
       /\ inv[i].pc = "loop"
       /\ LoopPosition(i) > Len(providers)
       /\ inv' = [inv EXCEPT ![i] = ExhaustOf(inv[i])]
  /\ UNCHANGED <<AI_PROVIDER, apiKeys, req, pc, idx, attempted, invoked, requests,
                 caught, returned, aiResult, claude, calls, result>>

----------------------------------------------------------------------------
(* Entry points *)

NoRequest == [fn |-> "none"]
NotCalled == [kind |-> "none", text |-> <<>>, error |-> ""]
NoResult == [settled |-> FALSE]

\* callAI called directly
CallAI ==
  /\ req = NoRequest
  /\ \E prompt \in Prompts, maxTokens \in TokenLimits :
       /\ req' = [fn |-> "callAI", prompt |-> prompt, maxTokens |-> maxTokens]
       /\ EnterCallAI(prompt, maxTokens)
  /\ UNCHANGED <<AI_PROVIDER, apiKeys, inv, claude, result>>

\* the promise of a direct callAI settles
CallAISettles ==
  /\ req.fn = "callAI"
  /\ pc = "done"
  /\ result = NoResult
  /\ result' = IF aiResult.type = "text"
               THEN [settled |-> TRUE, rejected |-> FALSE, value |-> aiResult.text]
               ELSE [settled |-> TRUE, rejected |-> TRUE, error |-> aiResult.error]
  /\ UNCHANGED <<AI_PROVIDER, apiKeys, inv, req, pc, idx, attempted, invoked,
                 requests, caught, returned, aiResult, claude, calls>>

\* callAI is called once more with the same arguments, after the earlier
\* invocation settled; `after` keeps how that one ended
CallAIAgain ==
  /\ req.fn = "callAI"
  /\ result.settled
  /\ Len(calls) < MaxCalls
  /\ req' = [fn |-> "callAI", prompt |-> req.prompt, maxTokens |-> req.maxTokens,
             after |-> IF result.rejected THEN "outage" ELSE "success"]
  /\ result' = NoResult
  /\ EnterCallAI(req.prompt, req.maxTokens)
  /\ UNCHANGED <<AI_PROVIDER, apiKeys, inv, claude>>

\* the text callAIStructured puts after the prompt
Rules == "RULES: Respond in bullet points. Keep it concise. Avoid unnecessary explanations."

\* variant of structuredPrompt: the prompt is passed on as it came
structuredPromptPlain(prompt) == prompt

\* const structuredPrompt = `\n${prompt}\n\nRULES: ...`
structuredPrompt(prompt) == <<"\n">> \o prompt \o <<"\n\n", Rules>>

\* callAIStructured is called: it calls callAI with the structured prompt
CallAIStructured ==
  /\ req = NoRequest
  /\ \E prompt \in Prompts, maxTokens \in TokenLimits :
       /\ req' = [fn |-> "callAIStructured", prompt |-> prompt, maxTokens |-> maxTokens]
       /\ EnterCallAI(structuredPrompt(prompt), maxTokens)
  /\ UNCHANGED <<AI_PROVIDER, apiKeys, inv, claude, result>>

\* return await callAI(structuredPrompt, maxTokens)
CallAIStructuredSettles ==
  /\ req.fn = "callAIStructured"
  /\ pc = "done"
  /\ result = NoResult
  /\ result' = IF aiResult.type = "text"
               THEN [settled |-> TRUE, rejected |-> FALSE, value |-> aiResult.text]
               ELSE [settled |-> TRUE, rejected |-> TRUE, error |-> aiResult.error]
  /\ UNCHANGED <<AI_PROVIDER, apiKeys, inv, req, pc, idx, attempted, invoked,
                 requests, caught, returned, aiResult, claude, calls>>

----------------------------------------------------------------------------
(* taskDowngrade.js *)

Difficulties == {"Easy", "Medium", "Hard"}

\* difficulty values passed by callers: the three levels and values that
\* are none of them
DifficultyValues == Difficulties \cup {"hard", "Extreme", Undefined}

\* task names, and the keywords taskName.toLowerCase() includes
TaskNames ==
  {"Gym workout", "Study and code", "Write report", "Nap",
   "LEARN to debug", "Read essay", "Program practice", "Essay revision",
   "Workout reading", "Revision", "Unprogrammed"}

Keywords(taskName) ==
  CASE taskName = "Gym workout" -> {"gym", "workout"}
    [] taskName = "Study and code" -> {"study", "code"}
    [] taskName = "Write report" -> {"write", "report"}
    [] taskName = "LEARN to debug" -> {"learn", "debug"}
    [] taskName = "Read essay" -> {"read", "essay"}
    [] taskName = "Program practice" -> {"program", "practice"}
    [] taskName = "Essay revision" -> {"essay", "revision"}
    [] taskName = "Workout reading" -> {"workout", "read"}
    [] taskName = "Revision" -> {"revision"}
    [] taskName = "Unprogrammed" -> {"program"}
    [] OTHER -> {}

Includes(taskName, words) == Keywords(taskName) \cap words # {}

ByDifficulty(difficulty, hard, medium, easy) ==
  IF difficulty = "Hard" THEN hard
  ELSE IF difficulty = "Medium" THEN medium
  ELSE easy

\* variant of getRuleBasedDowngrade: coding names are looked for before
\* study names
getRuleBasedDowngradeCodingFirst(taskName, difficulty) ==
  IF Includes(taskName, {"gym", "workout"})
    THEN ByDifficulty(difficulty, "20-minute light cardio or stretching",
                      "10-minute walk or yoga",
                      "5-minute stretching or mobility exercises")
  ELSE IF Includes(taskName, {"code", "program", "debug"})
    THEN ByDifficulty(difficulty, "Read documentation or watch tutorial for 15 minutes",
                      "Review code concepts for 10 minutes",
                      "Practice one small coding problem (5-10 mins)")
  ELSE IF Includes(taskName, {"study", "learn", "read"})
    THEN ByDifficulty(difficulty, "Review notes for 15 minutes",
                      "Skim important topics for 10 minutes",
                      "Quick 5-minute concept recap")
  ELSE IF Includes(taskName, {"write", "essay", "report"})
    THEN ByDifficulty(difficulty, "Create outline or bullet points only",
                      "Write one paragraph or key points",
                      "Brainstorm ideas for 10 minutes")
  ELSE IF Includes(taskName, {"practice", "revision"})
    THEN ByDifficulty(difficulty, "Complete 3 easy problems",
                      "Review solved examples",
                      "Quick concept revision (10 mins)")
  ELSE ByDifficulty(difficulty, "Reduce scope to 20-30 minutes of easier work",
                      "Reduce to 15 minutes of simplified version",
                      "Spend just 10 minutes on the easiest part")

getRuleBasedDowngrade(taskName, difficulty) ==
  IF Includes(taskName, {"gym", "workout"})
    THEN ByDifficulty(difficulty, "20-minute light cardio or stretching",
                      "10-minute walk or yoga",
                      "5-minute stretching or mobility exercises")
  ELSE IF Includes(taskName, {"study", "learn", "read"})
    THEN ByDifficulty(difficulty, "Review notes for 15 minutes",
                      "Skim important topics for 10 minutes",
                      "Quick 5-minute concept recap")
  ELSE IF Includes(taskName, {"code", "program", "debug"})
    THEN ByDifficulty(difficulty, "Read documentation or watch tutorial for 15 minutes",
                      "Review code concepts for 10 minutes",
                      "Practice one small coding problem (5-10 mins)")
  ELSE IF Includes(taskName, {"write", "essay", "report"})
    THEN ByDifficulty(difficulty, "Create outline or bullet points only",
                      "Write one paragraph or key points",
                      "Brainstorm ideas for 10 minutes")
  ELSE IF Includes(taskName, {"practice", "revision"})
    THEN ByDifficulty(difficulty, "Complete 3 easy problems",
                      "Review solved examples",
                      "Quick concept revision (10 mins)")
  ELSE ByDifficulty(difficulty, "Reduce scope to 20-30 minutes of easier work",
                      "Reduce to 15 minutes of simplified version",
                      "Spend just 10 minutes on the easiest part")

Null == [null |-> TRUE]
Str(t) == [null |-> FALSE, text |-> t]

\* getAIDowngrade: taskDowngrade.js imports callAI and handleAIError only, so
\* evaluating callClaude(prompt, 200) throws a ReferenceError
getAIDowngrade(taskName, difficulty, missedCount) ==
  Throw("ReferenceError: callClaude is not defined")

\* variant of DowngradeFallback: the generic suggestion whatever the task
DowngradeFallbackGeneric(taskName, difficulty) ==
  [success |-> TRUE,
   originalTask |-> taskName,
   suggestions |-> [ruleBased |-> getRuleBasedDowngrade("", difficulty),
                    aiGenerated |-> Null],
   fallbackMode |-> TRUE,
   message |-> "Consider this easier alternative"]

\* the catch block of suggestTaskDowngrade
DowngradeFallback(taskName, difficulty) ==
  [success |-> TRUE,
   originalTask |-> taskName,
   suggestions |-> [ruleBased |-> getRuleBasedDowngrade(taskName, difficulty),
                    aiGenerated |-> Null],
   fallbackMode |-> TRUE,
   message |-> "Consider this easier alternative"]

suggestTaskDowngrade(taskName, difficulty, missedCount) ==
  LET ai == getAIDowngrade(taskName, difficulty, missedCount) IN
  IF ai.kind = "return"
    THEN [success |-> TRUE,
          originalTask |-> taskName,
          difficulty |-> difficulty,
          missedCount |-> missedCount,
          suggestions |-> [ruleBased |-> getRuleBasedDowngrade(taskName, difficulty),
                           aiGenerated |-> Str(ai.text)],
          message |-> "Here's an easier alternative to keep momentum"]
    ELSE DowngradeFallback(taskName, difficulty)

\* suggestTaskDowngrade is called and settles: there is nothing it waits for
SuggestTaskDowngrade ==
  /\ req = NoRequest
  /\ \E taskName \in TaskNames, difficulty \in DifficultyValues,
        missedCount \in 0..MaxMissed :
       /\ req' = [fn |-> "suggestTaskDowngrade", taskName |-> taskName,
                  difficulty |-> difficulty, missedCount |-> missedCount]
       /\ claude' = getAIDowngrade(taskName, difficulty, missedCount)
       /\ result' = [settled |-> TRUE, rejected |-> FALSE,
                     value |-> suggestTaskDowngrade(taskName, difficulty, missedCount)]
  /\ pc' = "done"
  /\ UNCHANGED <<AI_PROVIDER, apiKeys, inv, idx, attempted, invoked, requests, caught,
                 returned, aiResult, calls>>

\* variant of shouldSuggestDowngrade: Medium tasks after 2 misses already
shouldSuggestDowngradeMediumTwo(missedCount, difficulty) ==
  IF difficulty = "Hard" /\ missedCount >= 2 THEN TRUE
  ELSE IF difficulty = "Medium" /\ missedCount >= 2 THEN TRUE
  ELSE IF difficulty = "Easy" /\ missedCount >= 4 THEN TRUE
  ELSE FALSE

shouldSuggestDowngrade(missedCount, difficulty) ==
  IF difficulty = "Hard" /\ missedCount >= 2 THEN TRUE
  ELSE IF difficulty = "Medium" /\ missedCount >= 3 THEN TRUE
  ELSE IF difficulty = "Easy" /\ missedCount >= 4 THEN TRUE
  ELSE FALSE

\* a synchronous helper returned v
ReturnedValue(v) == [settled |-> TRUE, rejected |-> FALSE, value |-> v]

\* shouldSuggestDowngrade is called and returns
ShouldSuggestDowngrade ==
  /\ req = NoRequest
  /\ \E missedCount \in 0..MaxMissedCount, difficulty \in DifficultyValues :
       /\ req' = [fn |-> "shouldSuggestDowngrade", missedCount |-> missedCount,
                  difficulty |-> difficulty]
       /\ result' = ReturnedValue(shouldSuggestDowngrade(missedCount, difficulty))
  /\ pc' = "done"
  /\ UNCHANGED <<AI_PROVIDER, apiKeys, inv, idx, attempted, invoked, requests, caught,
                 returned, aiResult, claude, calls>>

----------------------------------------------------------------------------
(* overthinkingGuard.js *)

ClaudeChars == {" ", "a", "'"}

ClaudeTexts == UNION {[1..n -> ClaudeChars] : n \in 0..MaxTextLen}

\* callClaude comes from ./claudeAPI: it resolves with some text or rejects
ClaudeOutcomes == {Return(t) : t \in ClaudeTexts} \cup {Throw("claude")}

\* .replace(/['"]/g, '')
StripQuotes(s) == SelectSeq(s, LAMBDA c : c # "'")

\* generateAIWarning once callClaude settled
generateAIWarning(o) ==
  IF o.kind = "return" THEN Return(StripQuotes(Trim(o.text))) ELSE o

\* variant of getRuleBasedWarning: no message of its own from 10 edits on
getRuleBasedWarningNoStop(editCount) ==
  IF editCount >= 7 THEN "Too much planning. Time to take action. Execution beats perfection."
  ELSE IF editCount >= 5 THEN "You've planned enough. Start working on your first task right now."
  ELSE "Your plan looks good. Time to execute!"

getRuleBasedWarning(editCount) ==
  IF editCount >= 10 THEN "STOP PLANNING! You've edited this 10+ times. Start executing NOW."
  ELSE IF editCount >= 7 THEN "Too much planning. Time to take action. Execution beats perfection."
  ELSE IF editCount >= 5 THEN "You've planned enough. Start working on your first task right now."
  ELSE "Your plan looks good. Time to execute!"

getInactivityMessage(daysInactive) ==
  IF daysInactive >= 7 THEN "It's been a week! Your plan is waiting. Start with the easiest task today."
  ELSE IF daysInactive >= 5 THEN "5 days without action. Don't let the plan gather dust. Begin now!"
  ELSE "3+ days inactive. Even 10 minutes of work keeps momentum alive."

Canned(m) == [null |-> FALSE, canned |-> m]

\* variant of OverthinkingFallback: the fallbackMode flag is left out
OverthinkingFallbackNoFlag(editCount) ==
  [success |-> TRUE,
   triggered |-> editCount >= 5,
   severity |-> IF editCount >= 10 THEN "severe" ELSE "moderate",
   message |-> Canned(getRuleBasedWarning(editCount))]

\* variant of OverthinkingFallback: triggered from 10 edits on only
OverthinkingFallbackSevereOnly(editCount) ==
  [success |-> TRUE,
   triggered |-> editCount >= 10,
   severity |-> IF editCount >= 10 THEN "severe" ELSE "moderate",
   message |-> Canned(getRuleBasedWarning(editCount)),
   fallbackMode |-> TRUE]

\* the catch block of checkOverthinking
OverthinkingFallback(editCount) ==
  [success |-> TRUE,
   triggered |-> editCount >= 5,
   severity |-> IF editCount >= 10 THEN "severe" ELSE "moderate",
   message |-> Canned(getRuleBasedWarning(editCount)),
   fallbackMode |-> TRUE]

Triggered(severity, editCount, daysInactive, message) ==
  [success |-> TRUE, triggered |-> TRUE, severity |-> severity,
   editCount |-> editCount, daysInactive |-> daysInactive, message |-> message]

\* the rule-based thresholds of checkOverthinking
isOverthinking(editCount) == editCount >= 5

\* variant of isSevereOverthinking: severe from 7 edits on
isSevereFromSeven(editCount) == editCount >= 7

isSevereOverthinking(editCount) == editCount >= 10

\* variant of longInactive: inactive from 2 days on
longInactiveFromTwo(daysInactive) == daysInactive >= 2

longInactive(daysInactive) == daysInactive >= 3

\* the severity checkOverthinking passes to generateAIWarning and reports
OverthinkingSeverity(editCount) ==
  IF isSevereOverthinking(editCount) THEN "severe" ELSE "moderate"

\* checkOverthinking is called: it settles at once, or calls callClaude from
\* generateAIWarning and waits for it
CheckOverthinking ==
  /\ req = NoRequest
  /\ \E editCount \in 0..MaxEditCount, daysInactive \in 0..MaxDaysInactive :
       /\ req' = [fn |-> "checkOverthinking", editCount |-> editCount,
                  daysInactive |-> daysInactive]
       /\ IF ~isOverthinking(editCount) /\ ~longInactive(daysInactive)
            THEN /\ result' = [settled |-> TRUE, rejected |-> FALSE,
                               value |-> [success |-> TRUE, triggered |-> FALSE,
                                          message |-> Null]]
                 /\ pc' = "done"
                 /\ UNCHANGED calls
            ELSE IF isSevereOverthinking(editCount) \/ isOverthinking(editCount)
              THEN /\ calls' = Append(calls, [callee |-> "callClaude",
                                              severity |-> OverthinkingSeverity(editCount)])
                   /\ pc' = "claude"
                   /\ UNCHANGED result
              ELSE /\ result' = [settled |-> TRUE, rejected |-> FALSE,
                                 value |-> Triggered("inactive", editCount, daysInactive,
                                             Canned(getInactivityMessage(daysInactive)))]
                   /\ pc' = "done"
                   /\ UNCHANGED calls
  /\ UNCHANGED <<AI_PROVIDER, apiKeys, inv, idx, attempted, invoked, requests, caught,
                 returned, aiResult, claude>>

\* callClaude settles and checkOverthinking returns
CallClaudeSettles ==
  /\ req.fn = "checkOverthinking"
  /\ pc = "claude"
  /\ \E c \in ClaudeOutcomes :
       LET o == generateAIWarning(c)
           severity == OverthinkingSeverity(req.editCount)
       IN
       /\ claude' = o
       /\ result' = [settled |-> TRUE, rejected |-> FALSE,
                     value |-> IF o.kind = "return"
                                 THEN Triggered(severity, req.editCount,
                                                req.daysInactive, Str(o.text))
                                 ELSE OverthinkingFallback(req.editCount)]
  /\ pc' = "done"
  /\ UNCHANGED <<AI_PROVIDER, apiKeys, inv, req, idx, attempted, invoked, requests,
                 caught, returned, aiResult, calls>>

shouldWarnUser(editCount, daysInactive) == editCount >= 5 \/ daysInactive >= 3

\* variant of getSeverityLevel: a week of inactivity counts as moderate only
getSeverityLevelEditsOnly(editCount, daysInactive) ==
  IF editCount >= 10 THEN "critical"
  ELSE IF editCount >= 7 THEN "severe"
  ELSE IF editCount >= 5 \/ daysInactive >= 3 THEN "moderate"
  ELSE "none"

getSeverityLevel(editCount, daysInactive) ==
  IF editCount >= 10 THEN "critical"
  ELSE IF editCount >= 7 \/ daysInactive >= 7 THEN "severe"
  ELSE IF editCount >= 5 \/ daysInactive >= 3 THEN "moderate"
  ELSE "none"

\* shouldWarnUser is called and returns
ShouldWarnUser ==
  /\ req = NoRequest
  /\ \E editCount \in 0..MaxEditCount, daysInactive \in 0..MaxDaysInactive :
       /\ req' = [fn |-> "shouldWarnUser", editCount |-> editCount,
                  daysInactive |-> daysInactive]
       /\ result' = ReturnedValue(shouldWarnUser(editCount, daysInactive))
  /\ pc' = "done"
  /\ UNCHANGED <<AI_PROVIDER, apiKeys, inv, idx, attempted, invoked, requests, caught,
                 returned, aiResult, claude, calls>>

\* getSeverityLevel is called and returns
GetSeverityLevel ==
  /\ req = NoRequest
  /\ \E editCount \in 0..MaxEditCount, daysInactive \in 0..MaxDaysInactive :
       /\ req' = [fn |-> "getSeverityLevel", editCount |-> editCount,
                  daysInactive |-> daysInactive]
       /\ result' = ReturnedValue(getSeverityLevel(editCount, daysInactive))
  /\ pc' = "done"
  /\ UNCHANGED <<AI_PROVIDER, apiKeys, inv, idx, attempted, invoked, requests, caught,
                 returned, aiResult, claude, calls>>

----------------------------------------------------------------------------
(* feasibilityCheck.js *)

days == <<"Monday", "Tuesday", "Wednesday", "Thursday", "Friday", "Saturday", "Sunday">>

Moods == {"motivated", "tired", "stressed"}

RECURSIVE Repeat(_, _)
Repeat(x, n) == IF n = 0 THEN <<>> ELSE <<x>> \o Repeat(x, n - 1)

RECURSIVE TasksFrom(_, _)
\* the dailyTasks array with count[i] tasks on day i, from day i on
TasksFrom(count, i) ==
  IF i > Len(days) THEN <<>>
  ELSE Repeat([day |-> days[i]], count[i]) \o TasksFrom(count, i + 1)

\* tasks whose day is none of the seven names the checks look for
OtherDayTasks == {<<>>, <<[day |-> "monday"], [day |-> Undefined]>>}

\* the weekly plans supplied: up to MaxPerDay tasks a day, with or without
\* tasks on no weekday; the days are treated alike by the checks, so plans
\* are taken up to a permutation of the days (no day has more tasks than
\* the day before)
WeeklyPlans ==
  {[dailyTasks |-> other \o TasksFrom(count, 1), mood |-> m] :
     count \in {c \in [1..Len(days) -> 0..MaxPerDay] :
                  \A i \in 1..(Len(days) - 1) : c[i] >= c[i + 1]},
     other \in OtherDayTasks,
     m \in Moods}

\* variant of groupTasksByDay: tasks on no weekday are put on Sunday
groupTasksByDayCatchAll(dailyTasks) ==
  [i \in 1..Len(days) |->
     SelectSeq(dailyTasks,
               LAMBDA t : t.day = days[i]
                          \/ (i = Len(days) /\ \A j \in 1..Len(days) : t.day # days[j]))]

\* grouped[day] = dailyTasks.filter(t => t.day === day)
groupTasksByDay(dailyTasks) ==
  [i \in 1..Len(days) |-> SelectSeq(dailyTasks, LAMBDA t : t.day = days[i])]

calculateDailyLoads(tasksByDay) ==
  [i \in 1..Len(days) |->
     LET taskCount == Len(tasksByDay[i])
         load == taskCount * 2
     IN [day |-> days[i],
         taskCount |-> taskCount,
         load |-> load,
         label |-> IF load = 0 THEN "Free"
                   ELSE IF load <= 3 THEN "Light"
                   ELSE IF load >= 7 THEN "Heavy"
                   ELSE "Balanced"]]

RECURSIVE SumLoads(_, _)
\* dailyLoads.reduce((sum, d) => sum + d.load, 0), from entry i on
SumLoads(dailyLoads, i) ==
  IF i > Len(dailyLoads) THEN 0 ELSE dailyLoads[i].load + SumLoads(dailyLoads, i + 1)

DayNames(dailyLoads) == [i \in 1..Len(dailyLoads) |-> dailyLoads[i].day]

\* numbers that are not integers are kept as fractions
Frac(n, d) == [num |-> n, den |-> d]
FracLeq(q, n) == q.num <= n * q.den
FracGt(q, n) == q.num > n * q.den

\* variant of RoundToTenth: Math.floor in place of Math.round
RoundDown(q) == Frac((10 * q.num) \div q.den, 10)

\* Math.round(avgLoad * 10) / 10
RoundToTenth(q) == Frac((2 * 10 * q.num + q.den) \div (2 * q.den), 10)

\* variant of hasIssues: the average load is not looked at
hasIssuesHeavyDaysOnly(heavyDays, avgLoad) == Len(heavyDays) > 0

\* hasIssues: heavyDays.length > 0 || avgLoad > 5
hasIssues(heavyDays, avgLoad) == Len(heavyDays) > 0 \/ FracGt(avgLoad, 5)

\* variant of feasible: avgLoad < 6 in place of avgLoad <= 6
feasibleBelowSix(heavyDays, avgLoad) ==
  FracLeq(avgLoad, 6) /\ avgLoad.num # 6 * avgLoad.den /\ Len(heavyDays) <= 2

\* feasible: avgLoad <= 6 && heavyDays.length <= 2
feasible(heavyDays, avgLoad) == FracLeq(avgLoad, 6) /\ Len(heavyDays) <= 2

\* variant of performRuleBasedChecks: a stressed mood counts as an issue
performRuleBasedChecksMoodAware(weeklyPlan) ==
  LET dailyTasks == weeklyPlan.dailyTasks
      mood == weeklyPlan.mood
      tasksByDay == groupTasksByDay(dailyTasks)
      dailyLoads == calculateDailyLoads(tasksByDay)
      heavyDays == DayNames(SelectSeq(dailyLoads, LAMBDA d : d.load >= 7))
      emptyDays == DayNames(SelectSeq(dailyLoads, LAMBDA d : d.load = 0))
      totalLoad == SumLoads(dailyLoads, 1)
      avgLoad == Frac(totalLoad, 7)
  IN [totalTasks |-> Len(dailyTasks),
      totalLoad |-> totalLoad,
      averageLoad |-> RoundToTenth(avgLoad),
      heavyDays |-> heavyDays,
      emptyDays |-> emptyDays,
      dailyBreakdown |-> dailyLoads,
      hasIssues |-> hasIssues(heavyDays, avgLoad) \/ mood = "stressed",
      feasible |-> feasible(heavyDays, avgLoad),
      warnings |->
        (IF Len(heavyDays) > 0 THEN <<"Heavy days detected">> ELSE <<>>)
        \o (IF FracGt(avgLoad, 5) THEN <<"Overall weekly load is high">> ELSE <<>>)
        \o (IF mood = "tired" \/ mood = "stressed"
              THEN <<IF mood = "tired"
                       THEN "Your mood is tired - consider reducing task load"
                       ELSE "Your mood is stressed - consider reducing task load">>
              ELSE <<>>)]

performRuleBasedChecks(weeklyPlan) ==
  LET dailyTasks == weeklyPlan.dailyTasks
      mood == weeklyPlan.mood
      tasksByDay == groupTasksByDay(dailyTasks)
      dailyLoads == calculateDailyLoads(tasksByDay)
      heavyDays == DayNames(SelectSeq(dailyLoads, LAMBDA d : d.load >= 7))
      emptyDays == DayNames(SelectSeq(dailyLoads, LAMBDA d : d.load = 0))
      totalLoad == SumLoads(dailyLoads, 1)
      avgLoad == Frac(totalLoad, 7)
  IN [totalTasks |-> Len(dailyTasks),
      totalLoad |-> totalLoad,
      averageLoad |-> RoundToTenth(avgLoad),
      heavyDays |-> heavyDays,
      emptyDays |-> emptyDays,
      dailyBreakdown |-> dailyLoads,
      hasIssues |-> hasIssues(heavyDays, avgLoad),
      feasible |-> feasible(heavyDays, avgLoad),
      warnings |->
        (IF Len(heavyDays) > 0 THEN <<"Heavy days detected">> ELSE <<>>)
        \o (IF FracGt(avgLoad, 5) THEN <<"Overall weekly load is high">> ELSE <<>>)
        \o (IF mood = "tired" \/ mood = "stressed"
              THEN <<IF mood = "tired"
                       THEN "Your mood is tired - consider reducing task load"
                       ELSE "Your mood is stressed - consider reducing task load">>
              ELSE <<>>)]

\* variant of handleAIError: the message of the error is passed on
handleAIErrorRaw(message) == message

\* handleAIError of aiAPI.js: the reply chosen by what error.message includes
handleAIError(message) ==
  CASE message \in {"http"} ->
         "AI services are busy right now. Please try again shortly."
    [] message \in {"keyMissing"} ->
         "AI service configuration error. Please contact the administrator."
    [] OTHER ->
         "All AI services are temporarily unavailable. Manual input is still available."

\* the prompt performAIAnalysis builds from the plan
AnalysisPrompt(weeklyPlan) == <<"Analyze this weekly plan", weeklyPlan>>

\* what checkFeasibility returns when the rule-based checks found no issue
WellBalanced(ruleBasedAnalysis) ==
  [success |-> TRUE,
   feasible |-> TRUE,
   ruleBasedChecks |-> ruleBasedAnalysis,
   aiSuggestions |-> Canned("Your weekly plan looks well-balanced!")]

\* checkFeasibility is called: the plan is fine, or performAIAnalysis calls
\* callAIStructured, which calls callAI
CheckFeasibility ==
  /\ req = NoRequest
  /\ \E weeklyPlan \in WeeklyPlans :
       LET ruleBasedAnalysis == performRuleBasedChecks(weeklyPlan) IN
       /\ req' = [fn |-> "checkFeasibility", weeklyPlan |-> weeklyPlan]
       /\ IF ruleBasedAnalysis.hasIssues
            THEN /\ EnterCallAI(structuredPrompt(AnalysisPrompt(weeklyPlan)), 1000)
                 /\ UNCHANGED result
            ELSE /\ result' = [settled |-> TRUE, rejected |-> FALSE,
                               value |-> WellBalanced(ruleBasedAnalysis)]
                 /\ pc' = "done"
                 /\ UNCHANGED <<idx, attempted, invoked, requests, caught, returned,
                                aiResult, calls>>
  /\ UNCHANGED <<AI_PROVIDER, apiKeys, inv, claude>>

\* variant of FeasibilityAfterAI: after an outage the plan is reported as
\* not feasible
FeasibilityAfterAIOutageInfeasible(weeklyPlan, ai) ==
  IF ai.type = "text"
    THEN [success |-> TRUE,
          feasible |-> performRuleBasedChecks(weeklyPlan).feasible,
          ruleBasedChecks |-> performRuleBasedChecks(weeklyPlan),
          aiSuggestions |-> Str(ai.text)]
    ELSE [success |-> FALSE,
          error |-> handleAIError(ai.error),
          ruleBasedChecks |-> [performRuleBasedChecks(weeklyPlan) EXCEPT !.feasible = FALSE]]

\* what checkFeasibility returns after the try block (aiAnalysis arrived) or
\* from its catch block
FeasibilityAfterAI(weeklyPlan, ai) ==
  IF ai.type = "text"
    THEN [success |-> TRUE,
          feasible |-> performRuleBasedChecks(weeklyPlan).feasible,
          ruleBasedChecks |-> performRuleBasedChecks(weeklyPlan),
          aiSuggestions |-> Str(ai.text)]
    ELSE [success |-> FALSE,
          error |-> handleAIError(ai.error),
          ruleBasedChecks |-> performRuleBasedChecks(weeklyPlan)]

\* callAI settled and checkFeasibility returns
CheckFeasibilitySettles ==
  /\ req.fn = "checkFeasibility"
  /\ pc = "done"
  /\ result = NoResult
  /\ result' = [settled |-> TRUE, rejected |-> FALSE,
                value |-> FeasibilityAfterAI(req.weeklyPlan, aiResult)]
  /\ UNCHANGED <<AI_PROVIDER, apiKeys, inv, req, pc, idx, attempted, invoked,
                 requests, caught, returned, aiResult, claude, calls>>

----------------------------------------------------------------------------
(* routes/ai.js: POST /api/ai/check-feasibility *)

\* request bodies: a weekly plan, or a body without the dailyTasks field
RequestBodies == WeeklyPlans \cup {[mood |-> m] : m \in Moods}

\* variant of tasksMissing: an empty task list is let through
tasksMissingNotEmpty(weeklyPlan) == "dailyTasks" \notin DOMAIN weeklyPlan

\* !weeklyPlan.dailyTasks || weeklyPlan.dailyTasks.length === 0
tasksMissing(weeklyPlan) ==
  "dailyTasks" \notin DOMAIN weeklyPlan \/ Len(weeklyPlan.dailyTasks) = 0

\* res.status(status).json(json); res.json(json) has status 200
Response(status, json) ==
  [settled |-> TRUE, rejected |-> FALSE, value |-> [status |-> status, json |-> json]]

\* the handler runs up to its first await: it answers 400, or calls
\* checkFeasibility, which answers at once or calls callAI
PostCheckFeasibility ==
  /\ req = NoRequest
  /\ \E weeklyPlan \in RequestBodies :
       /\ req' = [fn |-> "POST /check-feasibility", body |-> weeklyPlan]
       /\ IF tasksMissing(weeklyPlan)
            THEN /\ result' = Response(400, [success |-> FALSE,
                                             message |-> "Weekly plan with tasks is required"])
                 /\ pc' = "done"
                 /\ UNCHANGED <<idx, attempted, invoked, requests, caught, returned,
                                aiResult, calls>>
            ELSE LET ruleBasedAnalysis == performRuleBasedChecks(weeklyPlan) IN
                 IF ruleBasedAnalysis.hasIssues
                   THEN /\ EnterCallAI(structuredPrompt(AnalysisPrompt(weeklyPlan)), 1000)
                        /\ UNCHANGED result
                   ELSE /\ result' = Response(200, WellBalanced(ruleBasedAnalysis))
                        /\ pc' = "done"
                        /\ UNCHANGED <<idx, attempted, invoked, requests, caught,
                                       returned, aiResult, calls>>
  /\ UNCHANGED <<AI_PROVIDER, apiKeys, inv, claude>>

\* callAI settled, checkFeasibility returns and the handler answers
PostCheckFeasibilityResponds ==
  /\ req.fn = "POST /check-feasibility"
  /\ pc = "done"
  /\ result = NoResult
  /\ result' = Response(200, FeasibilityAfterAI(req.body, aiResult))
  /\ UNCHANGED <<AI_PROVIDER, apiKeys, inv, req, pc, idx, attempted, invoked,
                 requests, caught, returned, aiResult, claude, calls>>

----------------------------------------------------------------------------
(* Parsing of AI responses.  A response is the sequence of its lines, as   *)
(* split('\n') gives them; a line is a sequence of pieces of text: a      *)
(* blank, a bullet marker, a colon, a letter, or a header phrase as        *)
(* written.                                                                *)

\* "bullet" stands for the character U+2022
Markers == {"-", "bullet", "*"}

\* the lines AI responses are made of
Lines ==
  {<<>>,
   <<" ">>,
   <<"a">>,
   <<"-", " ", "a">>,
   <<" ", "bullet", "b">>,
   <<"*", "c", " ">>,
   <<"*", " ">>,
   <<"*", "*", "What Went Well", ":", "*", "*">>,
   <<"WHAT WENT WRONG">>,
   <<" ", "Possible Reasons", ":">>,
   <<"Suggestions">>,
   <<"-", " ", "Suggestions", " ", "a">>,
   <<"Suggestions", " ", "What Went Well">>}

\* aiResponse.split('\n'): at least one line
Responses_Text == UNION {[1..n -> Lines] : n \in 1..MaxLines}

\* toLowerCase on a piece of text
toLowerCasePiece(c) ==
  CASE c = "What Went Well" -> "what went well"
    [] c = "WHAT WENT WRONG" -> "what went wrong"
    [] c = "Possible Reasons" -> "possible reasons"
    [] c = "Suggestions" -> "suggestions"
    [] OTHER -> c

\* cleanLine.toLowerCase().includes(phrase)
IncludesPhrase(line, phrase) ==
  \E i \in 1..Len(line) : toLowerCasePiece(line[i]) = phrase

\* line.startsWith(marker)
StartsWith(line, marker) == line # <<>> /\ Head(line) = marker

\* line.replace(/^[markers]\s*/, '')
StripMarker(line, markers) ==
  IF line # <<>> /\ Head(line) \in markers THEN TrimStart(Tail(line)) ELSE line

----------------------------------------------------------------------------
(* weeklyReflection: the part of geminiAPI.js from line 126 on *)

SectionKeys == {"whatWentWell", "whatWentWrong", "possibleReasons", "suggestions"}

\* variant of EmptySections: no key is there before content arrives
NoSections == [k \in {} |-> <<>>]

\* const sections = { whatWentWell: [], whatWentWrong: [], ... }
EmptySections == [k \in SectionKeys |-> <<>>]

\* variant of Push: the content is put in front
PushFront(sections, currentSection, content) ==
  [k \in DOMAIN sections \cup {currentSection} |->
     IF k = currentSection
       THEN <<content>> \o (IF k \in DOMAIN sections THEN sections[k] ELSE <<>>)
       ELSE sections[k]]

\* sections[currentSection].push(content)
Push(sections, currentSection, content) ==
  [k \in DOMAIN sections \cup {currentSection} |->
     IF k = currentSection
       THEN Append(IF k \in DOMAIN sections THEN sections[k] ELSE <<>>, content)
       ELSE sections[k]]

\* variant of HeaderOf: the header tests in the opposite order
HeaderOfSuggestionsFirst(cleanLine) ==
  IF IncludesPhrase(cleanLine, "suggestions") THEN "suggestions"
  ELSE IF IncludesPhrase(cleanLine, "possible reasons") THEN "possibleReasons"
  ELSE IF IncludesPhrase(cleanLine, "what went wrong") THEN "whatWentWrong"
  ELSE IF IncludesPhrase(cleanLine, "what went well") THEN "whatWentWell"
  ELSE "null"

\* the header tests of parseReflectionSections, in their else-if order;
\* "null" when the line is no header
HeaderOf(cleanLine) ==
  IF IncludesPhrase(cleanLine, "what went well") THEN "whatWentWell"
  ELSE IF IncludesPhrase(cleanLine, "what went wrong") THEN "whatWentWrong"
  ELSE IF IncludesPhrase(cleanLine, "possible reasons") THEN "possibleReasons"
  ELSE IF IncludesPhrase(cleanLine, "suggestions") THEN "suggestions"
  ELSE "null"

\* cleanLine.startsWith('-') || cleanLine.startsWith(bullet) || cleanLine.startsWith('*')
IsBulletLine(cleanLine) == \E m \in Markers : StartsWith(cleanLine, m)

RECURSIVE ForEachLine(_, _, _)
\* lines.forEach(line => ...) from the given lines on
ForEachLine(lines, currentSection, sections) ==
  IF lines = <<>> THEN sections
  ELSE LET cleanLine == Trim(Head(lines))
           content == Trim(StripMarker(cleanLine, Markers))
       IN
       IF HeaderOf(cleanLine) # "null"
         THEN ForEachLine(Tail(lines), HeaderOf(cleanLine), sections)
       ELSE IF currentSection # "null" /\ IsBulletLine(cleanLine) /\ content # <<>>
         THEN ForEachLine(Tail(lines), currentSection,
                          Push(sections, currentSection, content))
       ELSE ForEachLine(Tail(lines), currentSection, sections)

parseReflectionSections(aiResponse) ==
  LET lines == SelectSeq(aiResponse, LAMBDA line : Trim(line) # <<>>) IN
  ForEachLine(lines, "null", EmptySections)

\* JavaScript numbers that Math.round(completedTasks / totalTasks * 100) gives
Num(n) == [kind |-> "number", n |-> n]
NaN == [kind |-> "NaN", n |-> 0]
Infinity == [kind |-> "Infinity", n |-> 0]

completionRate(completedTasks, totalTasks) ==
  IF totalTasks = 0
    THEN IF completedTasks = 0 THEN NaN ELSE Infinity
    ELSE Num((200 * completedTasks + totalTasks) \div (2 * totalTasks))

\* rate >= n and rate < n
RateGeq(rate, n) == rate.kind = "Infinity" \/ (rate.kind = "number" /\ rate.n >= n)
RateLt(rate, n) == rate.kind = "number" /\ rate.n < n

WeekData ==
  [totalTasks : 0..MaxWeekTasks, completedTasks : 0..MaxWeekTasks,
   missedTasks : 0..MaxWeekTasks, mood : Moods]

generateFallbackReflection(weekData) ==
  LET rate == completionRate(weekData.completedTasks, weekData.totalTasks) IN
  [whatWentWell |->
     IF RateGeq(rate, 80)
       THEN <<"Excellent completion rate - you stayed consistent!",
              "Strong commitment to your goals this week">>
     ELSE IF RateGeq(rate, 60)
       THEN <<"Good progress on majority of tasks",
              "Maintained momentum despite challenges">>
     ELSE <<<<"Completed", weekData.completedTasks, "tasks - that's still progress">>>>,
   whatWentWrong |->
     IF weekData.missedTasks > 0
       THEN <<<<weekData.missedTasks, "tasks were skipped or incomplete">>>>
            \o (IF RateLt(rate, 50)
                  THEN <<"More than half of planned tasks were missed">> ELSE <<>>)
       ELSE <<>>,
   possibleReasons |->
     (IF weekData.mood = "tired" \/ weekData.mood = "stressed"
        THEN <<<<"Your mood", weekData.mood, "may have impacted energy levels">>>>
        ELSE <<>>)
     \o (IF RateLt(rate, 50) THEN <<"Weekly plan may have been too ambitious">> ELSE <<>>),
   suggestions |->
     <<"Start with smaller, achievable tasks to build momentum",
       "Focus on consistency over perfection">>
     \o (IF RateLt(rate, 70)
           THEN <<"Reduce task difficulty or quantity for next week">> ELSE <<>>)]

\* generateAIReflection: the file imports callAIStructured and handleAIError
\* only, so evaluating callClaudeStructured(prompt, 2000) throws a
\* ReferenceError
generateAIReflection(weekData) ==
  Throw("ReferenceError: callClaudeStructured is not defined")

generateWeeklyReflection(weekData) ==
  LET aiReflection == generateAIReflection(weekData)
      rate == completionRate(weekData.completedTasks, weekData.totalTasks)
  IN
  IF aiReflection.kind = "return"
    THEN [success |-> TRUE,
          weekSummary |-> [totalTasks |-> weekData.totalTasks,
                           completedTasks |-> weekData.completedTasks,
                           missedTasks |-> weekData.missedTasks,
                           completionRate |-> rate,
                           mood |-> weekData.mood],
          reflection |-> parseReflectionSections(aiReflection.text),
          rawAIResponse |-> aiReflection.text]
    ELSE [success |-> TRUE,
          weekSummary |-> [totalTasks |-> weekData.totalTasks,
                           completedTasks |-> weekData.completedTasks,
                           completionRate |-> rate],
          reflection |-> generateFallbackReflection(weekData),
          fallbackMode |-> TRUE]

\* generateWeeklyReflection is called and settles: there is nothing it
\* waits for
GenerateWeeklyReflection ==
  /\ req = NoRequest
  /\ \E weekData \in WeekData :
       /\ req' = [fn |-> "generateWeeklyReflection", weekData |-> weekData]
       /\ claude' = generateAIReflection(weekData)
       /\ result' = ReturnedValue(generateWeeklyReflection(weekData))
  /\ pc' = "done"
  /\ UNCHANGED <<AI_PROVIDER, apiKeys, inv, idx, attempted, invoked, requests, caught,
                 returned, aiResult, calls>>

\* the layout generateAIReflection asks for: the header lines in order,
\* two bullet lines under each
SectionOrder == <<"whatWentWell", "whatWentWrong", "possibleReasons", "suggestions">>

HeaderLine(k) ==
  CASE k = "whatWentWell" -> <<"*", "*", "What Went Well", ":", "*", "*">>
    [] k = "whatWentWrong" -> <<"WHAT WENT WRONG">>
    [] k = "possibleReasons" -> <<" ", "Possible Reasons", ":">>
    [] k = "suggestions" -> <<"Suggestions">>

BulletLines == {<<"-", " ", "a">>, <<" ", "bullet", "b">>, <<"*", "c", " ">>}

RECURSIVE SectionedFrom(_, _)
SectionedFrom(bullets, i) ==
  IF i > Len(SectionOrder) THEN <<>>
  ELSE (IF SectionOrder[i] \in DOMAIN bullets
          THEN <<HeaderLine(SectionOrder[i]), bullets[SectionOrder[i]][1],
                 bullets[SectionOrder[i]][2]>>
          ELSE <<>>)
       \o SectionedFrom(bullets, i + 1)

\* responses in that layout, with any of the sections left out
SectionedResponses ==
  {IF SectionedFrom(b, 1) = <<>> THEN << <<>> >> ELSE SectionedFrom(b, 1) :
     b \in UNION {[present -> BulletLines \X BulletLines] :
                    present \in SUBSET SectionKeys}}

\* parseReflectionSections is applied to a response
ParseReflectionSections ==
  /\ req = NoRequest
  /\ \E aiResponse \in Responses_Text \cup SectionedResponses :
       /\ req' = [fn |-> "parseReflectionSections", aiResponse |-> aiResponse]
       /\ result' = ReturnedValue(parseReflectionSections(aiResponse))
  /\ pc' = "done"
  /\ UNCHANGED <<AI_PROVIDER, apiKeys, inv, idx, attempted, invoked, requests, caught,
                 returned, aiResult, claude, calls>>

----------------------------------------------------------------------------
(* routes/ai.js: POST /api/ai/generate-tasks *)

GoalNames == {Undefined, "", "Learn TLA+"}

\* the tasks parsed from the response
tasks(aiResponse) ==
  LET kept == SelectSeq(aiResponse,
                LAMBDA line : StartsWith(Trim(line), "bullet") \/ StartsWith(Trim(line), "-"))
      mapped == [i \in 1..Len(kept) |-> Trim(StripMarker(kept[i], {"bullet", "-"}))]
  IN SelectSeq(mapped, LAMBDA task : Len(task) > 0)

\* callClaude(prompt, 1500) comes from ../ai/claudeAPI: it resolves with
\* some text or rejects
TaskOutcomes == {Return(t) : t \in Responses_Text} \cup {Throw("claude")}

\* the handler runs up to its first await: it answers 400 or calls callClaude
PostGenerateTasks ==
  /\ req = NoRequest
  /\ \E goalName \in GoalNames :
       /\ req' = [fn |-> "POST /generate-tasks", goalName |-> goalName]
       /\ IF ~Truthy(goalName)
            THEN /\ result' = Response(400, [success |-> FALSE,
                                             message |-> "Goal name is required"])
                 /\ pc' = "done"
                 /\ UNCHANGED calls
            ELSE /\ calls' = Append(calls, [callee |-> "callClaude"])
                 /\ pc' = "claude"
                 /\ UNCHANGED result
  /\ UNCHANGED <<AI_PROVIDER, apiKeys, inv, idx, attempted, invoked, requests, caught,
                 returned, aiResult, claude>>

\* callClaude settles and the handler answers
PostGenerateTasksResponds ==
  /\ req.fn = "POST /generate-tasks"
  /\ pc = "claude"
  /\ \E c \in TaskOutcomes :
       /\ claude' = c
       /\ result' = IF c.kind = "return"
                      THEN Response(200, [success |-> TRUE,
                                          goalName |-> req.goalName,
                                          tasks |-> tasks(c.text),
                                          rawResponse |-> c.text])
                      ELSE Response(500, [success |-> FALSE,
                                          message |-> "Failed to generate tasks with AI",
                                          error |-> c.error])
  /\ pc' = "done"
  /\ UNCHANGED <<AI_PROVIDER, apiKeys, inv, req, idx, attempted, invoked, requests,
                 caught, returned, aiResult, calls>>

----------------------------------------------------------------------------

Init ==
  /\ AI_PROVIDER \in EnvValues
  /\ apiKeys \in SUBSET KnownProviders
  /\ req = NoRequest
  /\ pc = "idle"
  /\ idx = 0
  /\ attempted = <<>>
  /\ invoked = <<>>
  /\ requests = [p \in KnownProviders |-> 0]
  /\ caught = <<>>
  /\ returned = [p \in KnownProviders |-> NotReturned]
  /\ aiResult = Pending
  /\ claude = NotCalled
  /\ calls = <<>>
  /\ inv = [i \in Invocations |-> LocalIdle]
  /\ result = NoResult

Next ==
  \/ CallAI
  \/ AttemptProvider
  \/ ProviderResponds
  \/ BackoffElapses
  \/ ThrowAllUnavailable
  \/ CallAISettles
  \/ SuggestTaskDowngrade
  \/ CheckOverthinking
  \/ CallClaudeSettles

Spec == Init /\ [][Next]_vars

\* every request is answered, every timer fires, every step is taken
Fairness ==
  /\ WF_vars(AttemptProvider)
  /\ WF_vars(ProviderResponds)
  /\ WF_vars(BackoffElapses)
  /\ WF_vars(ThrowAllUnavailable)
  /\ WF_vars(CallAISettles)
  /\ WF_vars(CallClaudeSettles)

FairSpec == Spec /\ Fairness

\* the feasibility check, in a process that has the HuggingFace key or no
\* key at all and no AI_PROVIDER override
InitFeas ==
  /\ Init
  /\ AI_PROVIDER = Undefined
  /\ apiKeys \in {{}, {"huggingface"}}

NextFeas ==
  \/ CheckFeasibility
  \/ AttemptProvider
  \/ ProviderResponds
  \/ BackoffElapses
  \/ ThrowAllUnavailable
  \/ CheckFeasibilitySettles

SpecFeas == InitFeas /\ [][NextFeas]_vars

\* the three rule engines, in the same processes as SpecFeas
NextEngines ==
  \/ CheckFeasibility
  \/ AttemptProvider
  \/ ProviderResponds
  \/ BackoffElapses
  \/ ThrowAllUnavailable
  \/ CheckFeasibilitySettles
  \/ SuggestTaskDowngrade
  \/ CheckOverthinking
  \/ CallClaudeSettles

SpecEngines == InitFeas /\ [][NextEngines]_vars

\* the feasibility route, in the same processes as SpecFeas
NextRoute ==
  \/ PostCheckFeasibility
  \/ AttemptProvider
  \/ ProviderResponds
  \/ BackoffElapses
  \/ ThrowAllUnavailable
  \/ PostCheckFeasibilityResponds

SpecRoute == InitFeas /\ [][NextRoute]_vars

\* callAI invoked again and again in one process
NextRepeat ==
  \/ CallAI
  \/ CallAIAgain
  \/ AttemptProvider
  \/ ProviderResponds
  \/ BackoffElapses
  \/ ThrowAllUnavailable
  \/ CallAISettles

SpecRepeat == Init /\ [][NextRepeat]_vars

\* two callAI invocations interleaved, in a process with the Groq and
\* HuggingFace keys or the HuggingFace key alone and no override
InitConcurrent ==
  /\ Init
  /\ AI_PROVIDER = Undefined
  /\ apiKeys \in {{"huggingface"}, {"groq", "huggingface"}}

NextConcurrent ==
  \/ ConcurrentCallAI
  \/ ConcurrentAttempt
  \/ ConcurrentResponds
  \/ ConcurrentBackoff
  \/ ConcurrentExhaust

SpecConcurrent == InitConcurrent /\ [][NextConcurrent]_vars

\* callAIStructured and the callAI it calls
NextStructured ==
  \/ CallAIStructured
  \/ AttemptProvider
  \/ ProviderResponds
  \/ BackoffElapses
  \/ ThrowAllUnavailable
  \/ CallAIStructuredSettles

SpecStructured == Init /\ [][NextStructured]_vars

\* the helpers the engines export: called on their own, no provider involved
InitHelpers ==
  /\ Init
  /\ AI_PROVIDER = Undefined
  /\ apiKeys = {}

NextHelpers ==
  \/ ShouldSuggestDowngrade
  \/ ShouldWarnUser
  \/ GetSeverityLevel

SpecHelpers == InitHelpers /\ [][NextHelpers]_vars

\* the weekly reflection, its parser and the task generation route
NextParsing ==
  \/ GenerateWeeklyReflection
  \/ ParseReflectionSections
  \/ PostGenerateTasks
  \/ PostGenerateTasksResponds

SpecParsing == InitHelpers /\ [][NextParsing]_vars

----------------------------------------------------------------------------
(* Properties *)

FailedProviders == {caught[i].provider : i \in 1..Len(caught)}

IsPrefix(a, b) == Len(a) <= Len(b) /\ SubSeq(b, 1, Len(a)) = a

\* the provider the override names, compared without regard to case
NamedProvider ==
  CASE AI_PROVIDER \in {"gemini"} -> "gemini"
    [] AI_PROVIDER \in {"Groq"} -> "groq"
    [] AI_PROVIDER \in {"HUGGINGFACE"} -> "huggingface"
    [] OTHER -> "none"

\* the order of attempts the configuration calls for
ExpectedOrder ==
  IF NamedProvider \in KnownProviders
    THEN <<NamedProvider>> \o SelectSeq(PROVIDER_ORDER, LAMBDA p : p # NamedProvider)
    ELSE PROVIDER_ORDER

Position(p) == CHOOSE i \in 1..Len(ExpectedOrder) : ExpectedOrder[i] = p

Succeeded == {i \in 1..Len(attempted) : returned[attempted[i]].ok}

\* C1: as soon as a provider in the tried order succeeds, callAI has returned
\* exactly the text of the first provider that succeeded, every provider
\* tried before it has failed, and the caller receives the text alone.
C1_FirstSuccessReturned ==
  /\ Succeeded # {} =>
       LET first == CHOOSE i \in Succeeded : \A j \in Succeeded : i <= j IN
       /\ aiResult = Resolved(returned[attempted[first]].text)
       /\ \A j \in 1..(first - 1) : attempted[j] \in FailedProviders
       /\ (req.fn = "callAI" /\ result.settled) =>
            result = [settled |-> TRUE, rejected |-> FALSE,
                      value |-> returned[attempted[first]].text]
  /\ aiResult.type = "text" => Succeeded # {}

\* providers 1 and 2 failed, provider 3 succeeded and the caller has its text
C1_Witness ==
  /\ req.fn = "callAI"
  /\ Len(attempted) = 3
  /\ Len(caught) = 2
  /\ returned[attempted[3]].ok
  /\ returned[attempted[3]].text # <<>>
  /\ result.settled
  /\ ~result.rejected
  /\ result.value = returned[attempted[3]].text

\* C2: when every provider fails, whatever the kinds of failure, callAI
\* rejects with the one fixed aggregate error; it never throws any other
\* error, and it throws the aggregate only after all three providers failed.
C2_AggregateErrorOnly ==
  /\ aiResult.type = "error" =>
       /\ aiResult = Rejected(AllUnavailable)
       /\ FailedProviders = KnownProviders
       /\ \A p \in KnownProviders : ~returned[p].ok
  /\ (req.fn = "callAI" /\ pc = "done" /\ \A p \in KnownProviders : ~returned[p].ok) =>
       aiResult = Rejected(AllUnavailable)
  /\ (req.fn = "callAI" /\ result.settled /\ result.rejected) =>
       result.error = AllUnavailable

\* all three providers failed, each in a different way, and the caller got
\* the aggregate error
C2_Witness ==
  /\ req.fn = "callAI"
  /\ result.settled
  /\ result.rejected
  /\ result.error = AllUnavailable
  /\ Cardinality({caught[i].error : i \in 1..Len(caught)}) = 3
  /\ "keyMissing" \in {caught[i].error : i \in 1..Len(caught)}

\* C3: within one callAI invocation no adapter is called twice by callAI, an
\* adapter is called only when every provider before it in the order has
\* failed, and once an adapter succeeded it is the last one called.
C3_InvokedOnceInOrder ==
  /\ \A i, j \in 1..Len(invoked) : i # j => invoked[i] # invoked[j]
  /\ \A i \in 1..Len(invoked) : \A q \in KnownProviders :
       Position(q) < Position(invoked[i]) => q \in FailedProviders
  /\ \A p \in KnownProviders :
       returned[p].ok => (invoked # <<>> /\ invoked[Len(invoked)] = p)

\* the third adapter was called after the first two failed, and it succeeded
C3_Witness ==
  /\ Len(invoked) = 3
  /\ Cardinality(FailedProviders) = 2
  /\ returned[invoked[3]].ok

\* C4: one invocation of the HuggingFace adapter sends at most two requests:
\* the first one and one retry after a 'loading' answer.
C4_AtMostTwoRequests == requests["huggingface"] <= 2

\* C5: if every request is answered and every backoff elapses, a callAI
\* invocation that started eventually completes.
C5_CallAICompletes == (pc \in {"loop", "awaiting", "backoff"}) ~> (pc = "done")

\* C6: the providers are attempted in the order the configuration calls for:
\* the provider the override names case-insensitively first and the others in
\* their default order, or the default order when the override is absent or
\* names no known provider; only known providers are attempted or called, and
\* a call in which all fail attempted all three, each once.
C6_AttemptOrder ==
  /\ IsPrefix(attempted, ExpectedOrder)
  /\ aiResult.type = "error" => attempted = ExpectedOrder
  /\ Len(ExpectedOrder) = 3
  /\ {ExpectedOrder[i] : i \in 1..Len(ExpectedOrder)} = KnownProviders
  /\ \A i \in 1..Len(attempted) : attempted[i] \in KnownProviders
  /\ \A i \in 1..Len(invoked) : invoked[i] \in KnownProviders

\* an override in capitals put its provider first and all three were attempted
C6_Witness ==
  /\ AI_PROVIDER = "HUGGINGFACE"
  /\ attempted = <<"huggingface", "gemini", "groq">>
  /\ aiResult.type = "error"

\* C7: suggestTaskDowngrade and checkOverthinking resolve with a result
\* object and never reject; when their AI call failed the result has
\* fallbackMode set to true.
C7_EnginesDegradeGracefully ==
  (req.fn \in {"suggestTaskDowngrade", "checkOverthinking"} /\ pc = "done") =>
    /\ result.settled
    /\ ~result.rejected
    /\ result.value.success
    /\ claude.kind = "throw" =>
         /\ "fallbackMode" \in DOMAIN result.value
         /\ result.value.fallbackMode = TRUE

\* checkOverthinking's AI call failed and it resolved in fallback mode
C7_Witness ==
  /\ req.fn = "checkOverthinking"
  /\ claude.kind = "throw"
  /\ result.settled
  /\ ~result.rejected
  /\ "fallbackMode" \in DOMAIN result.value
  /\ result.value.fallbackMode = TRUE

\* C8: when checkFeasibility called the AI and every provider was
\* unavailable, it returns a success result with the rule-based judgment,
\* the feasible verdict and a fallback-mode indicator, not an error result.
C8_OutageGivesFallbackResult ==
  (req.fn = "checkFeasibility" /\ result.settled /\ aiResult.type = "error") =>
    LET v == result.value IN
    /\ v.success
    /\ "error" \notin DOMAIN v
    /\ "feasible" \in DOMAIN v
    /\ "fallbackMode" \in DOMAIN v
    /\ v.fallbackMode = TRUE

\* C9: the feasible verdict of the feasibility check, in the rule-based
\* checks and at the top of the result where it is given, is true exactly
\* when the reported averageLoad is at most 6 and at most 2 days are heavy.
C9_FeasibleIffThresholds ==
  (req.fn = "checkFeasibility" /\ result.settled) =>
    LET v == result.value
        r == v.ruleBasedChecks
        verdict == FracLeq(r.averageLoad, 6) /\ Len(r.heavyDays) <= 2
    IN
    /\ r.feasible <=> verdict
    /\ "feasible" \in DOMAIN v => (v.feasible <=> verdict)

\* the AI was called and the plan is infeasible by its average load alone
C9_Witness ==
  /\ req.fn = "checkFeasibility"
  /\ result.settled
  /\ aiResult.type = "text"
  /\ ~result.value.feasible
  /\ Len(result.value.ruleBasedChecks.heavyDays) <= 2

\* C10 as stated: the reported averageLoad equals the sum of the seven
\* per-day loads divided by 7, exactly.
C10_AverageIsExactQuotient ==
  (req.fn = "checkFeasibility" /\ result.settled) =>
    LET r == result.value.ruleBasedChecks IN
    7 * r.averageLoad.num = SumLoads(r.dailyBreakdown, 1) * r.averageLoad.den

\* C10 amended: the reported averageLoad is the sum of the seven per-day
\* loads divided by 7, rounded to the nearest tenth (halves upwards).
C10_AverageIsRoundedQuotient ==
  (req.fn = "checkFeasibility" /\ result.settled) =>
    LET r == result.value.ruleBasedChecks
        sum == SumLoads(r.dailyBreakdown, 1)
    IN
    /\ Len(r.dailyBreakdown) = 7
    /\ r.averageLoad.den = 10
    /\ 0 - 7 <= 20 * sum - 14 * r.averageLoad.num
    /\ 20 * sum - 14 * r.averageLoad.num < 7

\* a plan whose load is no multiple of 7: the report differs from the quotient
C10_Witness ==
  /\ req.fn = "checkFeasibility"
  /\ result.settled
  /\ LET r == result.value.ruleBasedChecks IN
     7 * r.averageLoad.num # SumLoads(r.dailyBreakdown, 1) * r.averageLoad.den

\* whether the per-day loads of a plan have a heavy day or average above 5
PlanHasIssues(weeklyPlan) ==
  LET loads == calculateDailyLoads(groupTasksByDay(weeklyPlan.dailyTasks)) IN
  \/ \E i \in 1..Len(loads) : loads[i].load >= 7
  \/ SumLoads(loads, 1) > 5 * 7

OrchestratorCalls == Len(SelectSeq(calls, LAMBDA c : c.callee = "callAI"))

NoProviderContacted ==
  /\ attempted = <<>>
  /\ invoked = <<>>
  /\ \A p \in KnownProviders : requests[p] = 0

\* C11: checkFeasibility calls the Orchestrator exactly when the plan has
\* issues (a heavy day, or an average load above 5), and then once; when it
\* has none the result is the canned positive message and no provider is
\* contacted.
C11_AICallIffHasIssues ==
  req.fn = "checkFeasibility" =>
    /\ OrchestratorCalls = (IF PlanHasIssues(req.weeklyPlan) THEN 1 ELSE 0)
    /\ Len(calls) = OrchestratorCalls
    /\ ~PlanHasIssues(req.weeklyPlan) =>
         /\ result.settled
         /\ ~result.rejected
         /\ result.value.success
         /\ result.value.aiSuggestions = Canned("Your weekly plan looks well-balanced!")
         /\ NoProviderContacted
         /\ aiResult = Pending

\* a plan with no heavy day and an average load above 5 was elaborated by
\* one Orchestrator call
C11_Witness ==
  /\ req.fn = "checkFeasibility"
  /\ result.settled
  /\ result.value.ruleBasedChecks.heavyDays = <<>>
  /\ PlanHasIssues(req.weeklyPlan)
  /\ OrchestratorCalls = 1
  /\ aiResult.type = "text"

C13_RuleBasedAlwaysPresent ==
  (req.fn = "suggestTaskDowngrade" /\ result.settled) =>
    /\ ~result.rejected
    /\ "suggestions" \in DOMAIN result.value
    /\ "ruleBased" \in DOMAIN result.value.suggestions
    /\ result.value.suggestions.ruleBased =
         getRuleBasedDowngrade(req.taskName, req.difficulty)

\* the AI call failed and the result carries the suggestion for a study task
C13_Witness ==
  /\ req.fn = "suggestTaskDowngrade"
  /\ req.taskName = "Study and code"
  /\ req.difficulty = "Medium"
  /\ claude.kind = "throw"
  /\ result.settled
  /\ result.value.suggestions.ruleBased = "Skim important topics for 10 minutes"

\* C14: suggestTaskDowngrade asks the Orchestrator for an alternative; its
\* result carries the Orchestrator's text as aiGenerated without
\* fallbackMode, and has aiGenerated = null with fallbackMode = true only
\* when the Orchestrator call failed.
C14_AIAlternativeFromOrchestrator ==
  (req.fn = "suggestTaskDowngrade" /\ result.settled) =>
    /\ OrchestratorCalls >= 1
    /\ aiResult.type = "text" =>
         /\ result.value.suggestions.aiGenerated = Str(aiResult.text)
         /\ "fallbackMode" \notin DOMAIN result.value
    /\ (result.value.suggestions.aiGenerated = Null
          /\ "fallbackMode" \in DOMAIN result.value
          /\ result.value.fallbackMode = TRUE) =>
         aiResult.type = "error"

\* the least missedCount for which a downgrade is suggested
RequiredMisses(difficulty) ==
  CHOOSE m \in 0..MaxMissedCount :
    /\ shouldSuggestDowngrade(m, difficulty)
    /\ \A k \in 0..(m - 1) : ~shouldSuggestDowngrade(k, difficulty)

\* C15: shouldSuggestDowngrade is true exactly from 2 misses for Hard, 3 for
\* Medium and 4 for Easy, false for any other difficulty; it is monotonic in
\* missedCount, and the required misses are ordered Hard <= Medium <= Easy.
C15_DowngradeThresholds ==
  /\ req.fn = "shouldSuggestDowngrade" =>
       result.value =
         CASE req.difficulty = "Hard" -> req.missedCount >= 2
           [] req.difficulty = "Medium" -> req.missedCount >= 3
           [] req.difficulty = "Easy" -> req.missedCount >= 4
           [] OTHER -> FALSE
  /\ \A d \in DifficultyValues : \A m1, m2 \in 0..MaxMissedCount :
       (m1 <= m2 /\ shouldSuggestDowngrade(m1, d)) => shouldSuggestDowngrade(m2, d)
  /\ RequiredMisses("Hard") <= RequiredMisses("Medium")
  /\ RequiredMisses("Medium") <= RequiredMisses("Easy")

\* a Medium task missed 3 times: a downgrade is suggested
C15_Witness ==
  /\ req.fn = "shouldSuggestDowngrade"
  /\ req.difficulty = "Medium"
  /\ req.missedCount = 3
  /\ result.value = TRUE

\* C16: the triggered flag of every checkOverthinking result, the fallback
\* results after an AI failure included, equals
\* (editCount >= 5 or daysInactive >= 3) and so agrees with shouldWarnUser.
C16_TriggeredIffThresholds ==
  (req.fn = "checkOverthinking" /\ result.settled) =>
    /\ result.value.triggered = (req.editCount >= 5 \/ req.daysInactive >= 3)
    /\ result.value.triggered = shouldWarnUser(req.editCount, req.daysInactive)

\* the AI call failed for 5 edits and no long inactivity: the fallback
\* result is triggered
C16_Witness ==
  /\ req.fn = "checkOverthinking"
  /\ req.editCount = 5
  /\ req.daysInactive < 3
  /\ claude.kind = "throw"
  /\ result.settled
  /\ "fallbackMode" \in DOMAIN result.value
  /\ result.value.triggered

SeverityRank(severity) ==
  CASE severity = "none" -> 0
    [] severity = "moderate" -> 1
    [] severity = "severe" -> 2
    [] severity = "critical" -> 3

\* C17: getSeverityLevel is critical from 10 edits, else severe from 7 edits
\* or 7 inactive days, else moderate from 5 edits or 3 inactive days, else
\* none; it never decreases when editCount or daysInactive grows.
C17_SeverityLevels ==
  /\ req.fn = "getSeverityLevel" =>
       result.value =
         CASE req.editCount >= 10 -> "critical"
           [] req.editCount < 10 /\ (req.editCount >= 7 \/ req.daysInactive >= 7) -> "severe"
           [] req.editCount < 7 /\ req.daysInactive < 7
              /\ (req.editCount >= 5 \/ req.daysInactive >= 3) -> "moderate"
           [] OTHER -> "none"
  /\ \A e1, e2 \in 0..MaxEditCount : \A d1, d2 \in 0..MaxDaysInactive :
       (e1 <= e2 /\ d1 <= d2) =>
         SeverityRank(getSeverityLevel(e1, d1)) <= SeverityRank(getSeverityLevel(e2, d2))

\* no edits and a week of inactivity: severe
C17_Witness ==
  /\ req.fn = "getSeverityLevel"
  /\ req.editCount = 0
  /\ req.daysInactive = 7
  /\ result.value = "severe"

\* C18: the severity of every triggered checkOverthinking result is one of
\* none, moderate, severe, critical and is what getSeverityLevel returns for
\* the same editCount and daysInactive.
C18_SeverityIsFourLevel ==
  (req.fn = "checkOverthinking" /\ result.settled /\ result.value.triggered) =>
    /\ result.value.severity \in {"none", "moderate", "severe", "critical"}
    /\ result.value.severity = getSeverityLevel(req.editCount, req.daysInactive)

\* C19: with fewer than 5 edits and fewer than 3 inactive days
\* checkOverthinking returns a non-triggered result with a null message and
\* makes no AI or provider call.
C19_BelowThresholdsNoCall ==
  (req.fn = "checkOverthinking" /\ req.editCount < 5 /\ req.daysInactive < 3) =>
    /\ result = ReturnedValue([success |-> TRUE, triggered |-> FALSE, message |-> Null])
    /\ calls = <<>>
    /\ claude = NotCalled
    /\ NoProviderContacted

\* 4 edits and 2 inactive days: not triggered
C19_Witness ==
  /\ req.fn = "checkOverthinking"
  /\ req.editCount = 4
  /\ req.daysInactive = 2
  /\ result.settled
  /\ ~result.value.triggered

\* C20: from 5 edits on checkOverthinking makes exactly one AI call, in the
\* severe tone from 10 edits on and the moderate tone below, whatever
\* daysInactive is; below 5 edits with 3 or more inactive days it makes no
\* AI call and the message is the canned inactivity message for 7 days, for
\* 5 days, or the default one.
C20_MessageSourcePriority ==
  req.fn = "checkOverthinking" =>
    /\ req.editCount >= 5 =>
         /\ calls = <<[callee |-> "callClaude",
                       severity |-> IF req.editCount >= 10 THEN "severe" ELSE "moderate"]>>
         /\ (result.settled /\ claude.kind = "return") =>
              result.value.message = Str(claude.text)
    /\ (req.editCount < 5 /\ req.daysInactive >= 3) =>
         /\ calls = <<>>
         /\ claude = NotCalled
         /\ result.settled
         /\ result.value.message = Canned(
              IF req.daysInactive >= 7
                THEN "It's been a week! Your plan is waiting. Start with the easiest task today."
              ELSE IF req.daysInactive >= 5
                THEN "5 days without action. Don't let the plan gather dust. Begin now!"
              ELSE "3+ days inactive. Even 10 minutes of work keeps momentum alive.")

\* 7 edits and a week of inactivity: the message came from the one AI call
C20_Witness ==
  /\ req.fn = "checkOverthinking"
  /\ req.editCount = 7
  /\ req.daysInactive = 7
  /\ Len(calls) = 1
  /\ claude.kind = "return"
  /\ result.settled
  /\ result.value.message = Str(claude.text)

\* C21: when the AI call of checkOverthinking fails, the function still
\* resolves: with triggered = true, fallbackMode = true and the canned
\* warning for 10 edits, for 7 edits or for 5 edits, by editCount.
C21_AIFailureGivesCannedWarning ==
  (req.fn = "checkOverthinking" /\ claude.kind = "throw") =>
    /\ result.settled
    /\ ~result.rejected
    /\ result.value.success
    /\ result.value.triggered
    /\ "fallbackMode" \in DOMAIN result.value
    /\ result.value.fallbackMode = TRUE
    /\ result.value.message = Canned(
         IF req.editCount >= 10
           THEN "STOP PLANNING! You've edited this 10+ times. Start executing NOW."
         ELSE IF req.editCount >= 7
           THEN "Too much planning. Time to take action. Execution beats perfection."
         ELSE "You've planned enough. Start working on your first task right now.")

\* 10 edits, no inactivity, the AI call failed: the STOP PLANNING fallback
C21_Witness ==
  /\ req.fn = "checkOverthinking"
  /\ req.editCount = 10
  /\ req.daysInactive = 0
  /\ claude.kind = "throw"
  /\ result.settled
  /\ result.value.triggered
  /\ result.value.fallbackMode = TRUE
  /\ result.value.message =
       Canned("STOP PLANNING! You've edited this 10+ times. Start executing NOW.")

IsList(v) == DOMAIN v = 1..Len(v)

\* C22: every reflection structure, parsed from an AI response or built by
\* the rule-based fallback of generateWeeklyReflection, has exactly the four
\* keys whatWentWell, whatWentWrong, possibleReasons and suggestions, each
\* an ordered list, possibly empty.
C22_FourKeysAlwaysPresent ==
  /\ req.fn = "parseReflectionSections" =>
       /\ DOMAIN result.value =
            {"whatWentWell", "whatWentWrong", "possibleReasons", "suggestions"}
       /\ \A k \in DOMAIN result.value : IsList(result.value[k])
  /\ req.fn = "generateWeeklyReflection" =>
       /\ result.settled
       /\ ~result.rejected
       /\ DOMAIN result.value.reflection =
            {"whatWentWell", "whatWentWrong", "possibleReasons", "suggestions"}
       /\ \A k \in DOMAIN result.value.reflection : IsList(result.value.reflection[k])

\* a response with content under one header only: the other keys are there
\* and empty
C22_Witness ==
  /\ req.fn = "parseReflectionSections"
  /\ result.value.suggestions # <<>>
  /\ result.value.whatWentWell = <<>>
  /\ result.value.whatWentWrong = <<>>
  /\ result.value.possibleReasons = <<>>

\* the section a header line of the layout names, and the content of a
\* bullet line of the layout
SectionOfHeaderLine(line) == CHOOSE k \in SectionKeys : HeaderLine(k) = line

ContentOfBulletLine(line) ==
  CASE line = <<"-", " ", "a">> -> <<"a">>
    [] line = <<" ", "bullet", "b">> -> <<"b">>
    [] line = <<"*", "c", " ">> -> <<"c">>

\* the response is made of blocks of a header line and two bullet lines,
\* no header twice
IsSectioned(aiResponse) ==
  /\ Len(aiResponse) % 3 = 0
  /\ \A i \in 1..Len(aiResponse) :
       IF i % 3 = 1
         THEN \E k \in SectionKeys : HeaderLine(k) = aiResponse[i]
         ELSE aiResponse[i] \in BulletLines
  /\ \A i, j \in 1..Len(aiResponse) :
       (i % 3 = 1 /\ j % 3 = 1 /\ i # j) => aiResponse[i] # aiResponse[j]

\* C23: section extraction of a response made of header lines with two
\* bullet lines each gives every header its two bullet contents in their
\* order; a header left out of the response has an empty list.
C23_SectionRoundTrip ==
  (req.fn = "parseReflectionSections" /\ IsSectioned(req.aiResponse)) =>
    LET text == req.aiResponse
        present == {SectionOfHeaderLine(text[i]) : i \in {j \in 1..Len(text) : j % 3 = 1}}
    IN
    /\ DOMAIN result.value = SectionKeys
    /\ \A i \in 1..Len(text) :
         i % 3 = 1 =>
           result.value[SectionOfHeaderLine(text[i])] =
             <<ContentOfBulletLine(text[i + 1]), ContentOfBulletLine(text[i + 2])>>
    /\ \A k \in SectionKeys \ present : result.value[k] = <<>>

\* all four headers but what-went-wrong, two different bullets under each
C23_Witness ==
  /\ req.fn = "parseReflectionSections"
  /\ Len(req.aiResponse) = 9
  /\ IsSectioned(req.aiResponse)
  /\ result.value.whatWentWell = << <<"a">>, <<"b">> >>
  /\ result.value.whatWentWrong = <<>>
  /\ result.value.possibleReasons = << <<"c">>, <<"a">> >>
  /\ result.value.suggestions = << <<"b">>, <<"c">> >>

\* the items the claim describes: of the lines whose trimmed form starts
\* with a marker, what follows the marker, trimmed, when not empty
BulletItems(aiResponse) ==
  LET kept == SelectSeq(aiResponse,
                LAMBDA line : Trim(line) # <<>> /\ Head(Trim(line)) \in {"bullet", "-", "*"})
      items == [i \in 1..Len(kept) |-> Trim(Tail(Trim(kept[i])))]
  IN SelectSeq(items, LAMBDA item : item # <<>>)

\* C24: the tasks extracted from the AI response are the lines whose
\* trimmed form starts with one of the three markers, each with the marker
\* stripped and the rest trimmed, indented or not, without the empty ones,
\* in the order of the response, duplicates kept.
C24_BulletExtraction ==
  (req.fn = "POST /generate-tasks" /\ result.settled /\ result.value.status = 200) =>
    result.value.json.tasks = BulletItems(claude.text)

\* C25: a provider whose key is not set fails its attempt before a request
\* is sent to it and callAI goes on with the next provider; such a provider
\* is never called and never receives a request.
C25_NoRequestWithoutKey ==
  \A p \in KnownProviders \ apiKeys :
    /\ requests[p] = 0
    /\ \A i \in 1..Len(invoked) : invoked[i] # p
    /\ ~returned[p].ok
    /\ \A i \in 1..Len(attempted) :
         attempted[i] = p =>
           /\ \E j \in 1..Len(caught) : caught[j] = [provider |-> p, error |-> "keyMissing"]
           /\ i = Len(attempted) =>
                \/ pc = "loop"
                \/ pc = "done" /\ Len(attempted) = 3 /\ aiResult.type = "error"

\* the first provider has no key: no request went to it, and the second
\* provider was called
C25_Witness ==
  /\ Len(attempted) = 2
  /\ attempted[1] \notin apiKeys
  /\ requests[attempted[1]] = 0
  /\ invoked = <<attempted[2]>>
  /\ requests[attempted[2]] = 1

\* C26: the text an adapter returns is trimmed and not empty, and so is the
\* text callAI returns: blank text in the provider's envelope makes the
\* adapter fail.
C26_ReturnedTextNotBlank ==
  /\ \A p \in KnownProviders :
       returned[p].ok => (returned[p].text # <<>> /\ returned[p].text = Trim(returned[p].text))
  /\ aiResult.type = "text" => aiResult.text # <<>>

\* C27: callAIStructured makes one callAI call, with the caller's prompt
\* set between a line break and the fixed rules and with the caller's token
\* limit; the providers are attempted in callAI's order, and the text or the
\* aggregate error of callAI is passed on as it is.
C27_StructuredDelegates ==
  req.fn = "callAIStructured" =>
    /\ calls = <<[callee |-> "callAI",
                  prompt |-> <<"\n">> \o req.prompt \o
                    <<"\n\n", "RULES: Respond in bullet points. Keep it concise. Avoid unnecessary explanations.">>,
                  maxTokens |-> req.maxTokens]>>
    /\ IsPrefix(attempted, ExpectedOrder)
    /\ result.settled =>
         /\ pc = "done"
         /\ aiResult.type = "text" =>
              result = [settled |-> TRUE, rejected |-> FALSE, value |-> aiResult.text]
         /\ aiResult.type = "error" =>
              /\ result = [settled |-> TRUE, rejected |-> TRUE, error |-> AllUnavailable]
              /\ attempted = ExpectedOrder
    /\ (pc = "done" /\ aiResult.type = "text") =>
         \E p \in KnownProviders : returned[p] = [ok |-> TRUE, text |-> aiResult.text]

\* callAIStructured returned the text of the second provider
C27_Witness ==
  /\ req.fn = "callAIStructured"
  /\ Len(attempted) = 2
  /\ result.settled
  /\ ~result.rejected
  /\ result.value = returned[attempted[2]].text
  /\ result.value # <<>>

C28_NoStateBetweenInvocations ==
  (req.fn = "callAI" /\ Len(calls) >= 2) =>
    /\ "after" \in DOMAIN req
    /\ IsPrefix(attempted, ExpectedOrder)
    /\ IsPrefix(invoked, SelectSeq(ExpectedOrder, LAMBDA p : p \in apiKeys))
    /\ \A i \in 1..Len(invoked) : requests[invoked[i]] >= 1
    /\ aiResult.type = "text" =>
         \E i \in 1..Len(invoked) :
           returned[invoked[i]] = [ok |-> TRUE, text |-> aiResult.text]
    /\ aiResult.type = "error" => attempted = ExpectedOrder
    /\ pc = "done" => attempted # <<>>

\* after a total outage the next invocation called the first provider
\* again and got its text
C28_Witness ==
  /\ req.fn = "callAI"
  /\ Len(calls) = 2
  /\ "after" \in DOMAIN req
  /\ req.after = "outage"
  /\ attempted = <<ExpectedOrder[1]>>
  /\ invoked = attempted
  /\ result.settled
  /\ ~result.rejected
  /\ result.value # <<>>

\* the steps callAI takes on the locals l when it runs on its own
IsolatedSteps(l) ==
  CASE l.pc = "idle" -> {LocalStart}
    [] l.pc = "loop" /\ l.idx <= Len(providers) -> {AttemptOf(l, l.idx)}
    [] l.pc = "loop" /\ l.idx > Len(providers) -> {ExhaustOf(l)}
    [] l.pc = "awaiting" -> {RespondOf(l, l.idx, r) : r \in Responses}
    [] l.pc = "backoff" -> {BackoffOf(l)}
    [] OTHER -> {}

\* C29: when callAI invocations run interleaved, every step is a step of
\* one invocation that leaves the locals of the others as they were and
\* moves its own locals as callAI running alone would on the same
\* response; so each invocation attempts the providers in the configured
\* order from the first on, counts only its own requests, returns a text
\* that a provider returned to it, and fails only after attempting all
\* providers itself.
C29_ConcurrentInvocationsIndependent ==
  /\ [][\E i \in Invocations :
          /\ \A j \in Invocations \ {i} : inv'[j] = inv[j]
          /\ inv'[i] \in IsolatedSteps(inv[i])]_inv
  /\ [](\A i \in Invocations :
          /\ IsPrefix(inv[i].attempted, ExpectedOrder)
          /\ \A p \in KnownProviders :
               inv[i].requests[p] >= 1 <=>
                 \E k \in 1..Len(inv[i].invoked) : inv[i].invoked[k] = p
          /\ inv[i].aiResult.type = "text" =>
               \E k \in 1..Len(inv[i].invoked) :
                 inv[i].returned[inv[i].invoked[k]] =
                   [ok |-> TRUE, text |-> inv[i].aiResult.text]
          /\ inv[i].aiResult.type = "error" => inv[i].attempted = ExpectedOrder)

\* invocation A is waiting out a HuggingFace backoff after Groq failed it,
\* while invocation B, started meanwhile, already has its text from Groq
C29_Witness ==
  /\ inv["A"].pc = "backoff"
  /\ inv["A"].attempted = <<"gemini", "groq", "huggingface">>
  /\ inv["A"].requests["huggingface"] >= 2
  /\ inv["B"].pc = "done"
  /\ inv["B"].attempted = <<"gemini", "groq">>
  /\ inv["B"].aiResult.type = "text"
  /\ inv["B"].aiResult.text # <<>>

\* C31: generateWeeklyReflection returns the rule-based reflection with
\* fallbackMode only after an Orchestrator call that failed; when the
\* Orchestrator returned text the reflection is the section parse of that
\* text, rawAIResponse is that text and fallbackMode is not set.
C31_FallbackOnlyAfterOrchestratorFailure ==
  (req.fn = "generateWeeklyReflection" /\ result.settled) =>
    /\ OrchestratorCalls >= 1
    /\ "fallbackMode" \in DOMAIN result.value => aiResult.type = "error"
    /\ aiResult.type = "text" =>
         /\ "fallbackMode" \notin DOMAIN result.value
         /\ result.value.rawAIResponse = aiResult.text
         /\ result.value.reflection = parseReflectionSections(aiResult.text)

\* the keyword groups in the order they are looked for, with the
\* substitutes of each, and the generic downgrade
DowngradeGroups ==
  <<[words |-> {"gym", "workout"},
     hard |-> "20-minute light cardio or stretching",
     medium |-> "10-minute walk or yoga",
     easy |-> "5-minute stretching or mobility exercises"],
    [words |-> {"study", "learn", "read"},
     hard |-> "Review notes for 15 minutes",
     medium |-> "Skim important topics for 10 minutes",
     easy |-> "Quick 5-minute concept recap"],
    [words |-> {"code", "program", "debug"},
     hard |-> "Read documentation or watch tutorial for 15 minutes",
     medium |-> "Review code concepts for 10 minutes",
     easy |-> "Practice one small coding problem (5-10 mins)"],
    [words |-> {"write", "essay", "report"},
     hard |-> "Create outline or bullet points only",
     medium |-> "Write one paragraph or key points",
     easy |-> "Brainstorm ideas for 10 minutes"],
    [words |-> {"practice", "revision"},
     hard |-> "Complete 3 easy problems",
     medium |-> "Review solved examples",
     easy |-> "Quick concept revision (10 mins)"]>>

GenericDowngrade ==
  [hard |-> "Reduce scope to 20-30 minutes of easier work",
   medium |-> "Reduce to 15 minutes of simplified version",
   easy |-> "Spend just 10 minutes on the easiest part"]

MatchingGroups(taskName) ==
  {i \in 1..Len(DowngradeGroups) : Keywords(taskName) \cap DowngradeGroups[i].words # {}}

EarliestGroup(taskName) ==
  CHOOSE i \in MatchingGroups(taskName) : \A j \in MatchingGroups(taskName) : i <= j

\* C32: the rule-based downgrade is the substitute of the earliest keyword
\* group (exercise, study, coding, writing, practice) the lower-cased task
\* name contains, or the generic downgrade when it contains none: the Hard
\* substitute for difficulty Hard, the Medium one for Medium, the Easy one
\* for every other difficulty. A Hard task with a study name gets "Review
\* notes for 15 minutes".
C32_EarliestKeywordGroupWins ==
  (req.fn = "suggestTaskDowngrade" /\ result.settled) =>
    LET group == IF MatchingGroups(req.taskName) = {}
                   THEN GenericDowngrade
                   ELSE DowngradeGroups[EarliestGroup(req.taskName)]
        ruleBased == result.value.suggestions.ruleBased
    IN /\ req.difficulty = "Hard" => ruleBased = group.hard
       /\ req.difficulty = "Medium" => ruleBased = group.medium
       /\ req.difficulty \notin {"Hard", "Medium"} => ruleBased = group.easy
       /\ (req.difficulty = "Hard" /\ MatchingGroups(req.taskName) # {}
             /\ EarliestGroup(req.taskName) = 2) =>
            ruleBased = "Review notes for 15 minutes"

\* a Hard task whose name contains a study word and a coding word got the
\* study substitute
C32_Witness ==
  /\ req.fn = "suggestTaskDowngrade"
  /\ req.taskName = "LEARN to debug"
  /\ req.difficulty = "Hard"
  /\ MatchingGroups(req.taskName) = {2, 3}
  /\ result.settled
  /\ result.value.suggestions.ruleBased = "Review notes for 15 minutes"

\* the header phrases in their fixed order (the order of SectionOrder)
HeaderPhrases == <<"what went well", "what went wrong", "possible reasons", "suggestions">>

\* the section whose phrase a line contains, the first in the fixed order
\* when it contains several; "null" when it contains none
SectionNamedBy(line) ==
  LET found == {k \in 1..Len(HeaderPhrases) :
                  \E i \in 1..Len(line) : toLowerCasePiece(line[i]) = HeaderPhrases[k]}
  IN IF found = {} THEN "null"
     ELSE SectionOrder[CHOOSE k \in found : \A j \in found : k <= j]

\* the section most recently named before line i of the text
SectionInForce(text, i) ==
  LET headers == {j \in 1..(i - 1) : SectionNamedBy(text[j]) # "null"} IN
  IF headers = {} THEN "null"
  ELSE SectionNamedBy(text[CHOOSE j \in headers : \A h \in headers : h <= j])

\* the trimmed line starts with a bullet marker and names no section
IsContentLine(line) ==
  /\ Trim(line) # <<>>
  /\ Head(Trim(line)) \in {"-", "bullet", "*"}
  /\ SectionNamedBy(line) = "null"

\* the list is made of what follows the marker, trimmed, on the lines of
\* the text with the given positions, in the order of the text
IsContentOf(list, text, positions) ==
  /\ Len(list) = Cardinality(positions)
  /\ \A i \in positions :
       list[Cardinality({j \in positions : j <= i})] = Trim(Tail(Trim(text[i])))

\* C33 as stated: every section holds, in order, the content of every
\* bullet line that names no section and follows a header of that section
\* with no other header in between; bullet lines before the first header
\* and lines that contain a header phrase are not stored.
C33_EveryBulletAfterHeaderStored ==
  req.fn = "parseReflectionSections" =>
    \A k \in SectionKeys :
      IsContentOf(result.value[k], req.aiResponse,
                  {i \in 1..Len(req.aiResponse) :
                     /\ IsContentLine(req.aiResponse[i])
                     /\ SectionInForce(req.aiResponse, i) = k})

\* C33: every section holds, in order, the content of every bullet line
\* that names no section, has something after its marker, and follows a
\* header of that section with no other header in between; bullet lines
\* before the first header, bullet lines with nothing after the marker and
\* lines that contain a header phrase are not stored, and a line with
\* several header phrases switches to the first of them in the fixed order.
C33_NonEmptyBulletAfterHeaderStored ==
  req.fn = "parseReflectionSections" =>
    \A k \in SectionKeys :
      IsContentOf(result.value[k], req.aiResponse,
                  {i \in 1..Len(req.aiResponse) :
                     /\ IsContentLine(req.aiResponse[i])
                     /\ Trim(Tail(Trim(req.aiResponse[i]))) # <<>>
                     /\ SectionInForce(req.aiResponse, i) = k})

\* a bullet before any header, then a bullet line that contains the phrase
\* "Suggestions", then a bullet: only the last one is stored, under
\* suggestions
C33_Witness ==
  /\ req.fn = "parseReflectionSections"
  /\ req.aiResponse = << <<"-", " ", "a">>,
                         <<"-", " ", "Suggestions", " ", "a">>,
                         <<" ", "bullet", "b">> >>
  /\ result.settled
  /\ result.value = [EmptySections EXCEPT !.suggestions = << <<"b">> >>]

\* the number of tasks of the list that are on the given day
TasksOn(dailyTasks, day) == Len(SelectSeq(dailyTasks, LAMBDA t : t.day = day))

RECURSIVE TasksOnWeekdays(_, _)
\* the number of tasks of the list that are on one of the seven weekdays,
\* from weekday i on
TasksOnWeekdays(dailyTasks, i) ==
  IF i > Len(days) THEN 0
  ELSE TasksOn(dailyTasks, days[i]) + TasksOnWeekdays(dailyTasks, i + 1)

\* C34: the daily breakdown of the feasibility check has one entry for each
\* of the seven weekdays, in their order, with load twice the number of
\* tasks on that day; heavyDays lists exactly the days with load >= 7 (at
\* least 4 tasks) and emptyDays exactly those with load 0. totalTasks counts
\* every task, totalLoad only those on a weekday: totalLoad <= 2 x
\* totalTasks, with equality exactly when every task is on a weekday.
C34_DailyBreakdownPerWeekday ==
  (req.fn = "checkFeasibility" /\ result.settled) =>
    LET r == result.value.ruleBasedChecks
        dailyTasks == req.weeklyPlan.dailyTasks
        listed(list) == {list[i] : i \in 1..Len(list)}
    IN
    /\ Len(r.dailyBreakdown) = 7
    /\ \A i \in 1..7 :
         /\ r.dailyBreakdown[i].day = days[i]
         /\ r.dailyBreakdown[i].load = 2 * TasksOn(dailyTasks, days[i])
         /\ days[i] \in listed(r.heavyDays) <=> r.dailyBreakdown[i].load >= 7
         /\ days[i] \in listed(r.heavyDays) <=> TasksOn(dailyTasks, days[i]) >= 4
         /\ days[i] \in listed(r.emptyDays) <=> r.dailyBreakdown[i].load = 0
    /\ listed(r.heavyDays) \cup listed(r.emptyDays) \subseteq listed(days)
    /\ r.totalTasks = Len(dailyTasks)
    /\ r.totalLoad = 2 * TasksOnWeekdays(dailyTasks, 1)
    /\ r.totalLoad <= 2 * r.totalTasks
    /\ r.totalLoad = 2 * r.totalTasks <=>
         \A k \in 1..Len(dailyTasks) : dailyTasks[k].day \in listed(days)

\* four tasks on Monday and two tasks on no weekday: Monday is heavy, the
\* other six days are empty, and the total load is below twice the tasks
C34_Witness ==
  /\ req.fn = "checkFeasibility"
  /\ result.settled
  /\ result.value.ruleBasedChecks.totalTasks = 6
  /\ result.value.ruleBasedChecks.totalLoad = 8
  /\ result.value.ruleBasedChecks.heavyDays = <<"Monday">>
  /\ Len(result.value.ruleBasedChecks.emptyDays) = 6

\* the warnings about the mood
MoodWarnings ==
  {"Your mood is tired - consider reducing task load",
   "Your mood is stressed - consider reducing task load"}

\* C35: the mood of the plan changes nothing in the rule-based checks but
\* the warnings: for every mood the same tasks give the same loads, heavy
\* and empty days, hasIssues and feasible, and the Orchestrator is called
\* exactly when the tasks alone have issues. The warnings are one about the
\* heavy days iff there is a heavy day, one about the high load iff the
\* average load is above 5, and one about the mood iff it is tired or
\* stressed.
C35_MoodOnlyAffectsWarnings ==
  (req.fn = "checkFeasibility" /\ result.settled) =>
    LET r == result.value.ruleBasedChecks
        plan == req.weeklyPlan
        WithoutWarnings(x) == [k \in DOMAIN x \ {"warnings"} |-> x[k]]
        Count_(texts) == Len(SelectSeq(r.warnings, LAMBDA w : w \in texts))
    IN
    /\ \A m \in Moods :
         WithoutWarnings(performRuleBasedChecks([plan EXCEPT !.mood = m]))
           = WithoutWarnings(r)
    /\ OrchestratorCalls = IF PlanHasIssues(plan) THEN 1 ELSE 0
    /\ Count_(MoodWarnings) = IF plan.mood \in {"tired", "stressed"} THEN 1 ELSE 0
    /\ Count_({"Heavy days detected"}) = IF r.heavyDays # <<>> THEN 1 ELSE 0
    /\ Count_({"Overall weekly load is high"}) = IF r.totalLoad > 5 * 7 THEN 1 ELSE 0
    /\ Len(r.warnings) = Count_(MoodWarnings) + Count_({"Heavy days detected"})
                           + Count_({"Overall weekly load is high"})

\* a stressed user with a light plan: the only warning is the one about
\* the mood, the plan has no issues and the Orchestrator is not called
C35_Witness ==
  /\ req.fn = "checkFeasibility"
  /\ req.weeklyPlan.mood = "stressed"
  /\ req.weeklyPlan.dailyTasks # <<>>
  /\ result.settled
  /\ result.value.ruleBasedChecks.warnings =
       <<"Your mood is stressed - consider reducing task load">>
  /\ ~result.value.ruleBasedChecks.hasIssues
  /\ result.value.ruleBasedChecks.feasible
  /\ OrchestratorCalls = 0

\* C36: when the AI call of checkFeasibility failed, checkFeasibility does
\* not reject: it returns success = false, the fixed text of handleAIError
\* as error, which carries nothing of what the providers answered, and the
\* rule-based checks of the same plan, and nothing else; the Orchestrator
\* was called once and attempted no provider twice.
C36_AIFailureGivesErrorResult ==
  (req.fn = "checkFeasibility" /\ aiResult.type = "error") =>
    /\ OrchestratorCalls = 1
    /\ \A i, j \in 1..Len(attempted) : attempted[i] = attempted[j] => i = j
    /\ result.settled =>
         /\ ~result.rejected
         /\ DOMAIN result.value = {"success", "error", "ruleBasedChecks"}
         /\ result.value.success = FALSE
         /\ result.value.error =
              "All AI services are temporarily unavailable. Manual input is still available."
         /\ \A i \in 1..Len(caught) : result.value.error # caught[i].error
         /\ result.value.ruleBasedChecks = performRuleBasedChecks(req.weeklyPlan)

\* HuggingFace was asked and failed, Gemini and Groq have no key, and
\* checkFeasibility returned the error result with the rule-based checks
C36_Witness ==
  /\ req.fn = "checkFeasibility"
  /\ aiResult.type = "error"
  /\ invoked = <<"huggingface">>
  /\ Len(caught) = 3
  /\ result.settled
  /\ ~result.rejected
  /\ result.value.success = FALSE
  /\ result.value.ruleBasedChecks.hasIssues

\* C37: whatever the providers answered, the rule-based part of an engine's
\* result is the one its input alone determines: checkFeasibility reports
\* the rule-based checks of the plan, suggestTaskDowngrade the rule-based
\* downgrade of the task name and difficulty, and checkOverthinking is
\* triggered exactly from 5 edits or 3 inactive days on, with severity
\* severe from 10 edits, moderate from 5, inactive otherwise.
C37_RuleBasedPartIgnoresProviders ==
  result.settled =>
    /\ req.fn = "checkFeasibility" =>
         result.value.ruleBasedChecks = performRuleBasedChecks(req.weeklyPlan)
    /\ req.fn = "suggestTaskDowngrade" =>
         result.value.suggestions.ruleBased =
           getRuleBasedDowngrade(req.taskName, req.difficulty)
    /\ req.fn = "checkOverthinking" =>
         /\ result.value.triggered <=> (req.editCount >= 5 \/ req.daysInactive >= 3)
         /\ result.value.triggered =>
              result.value.severity =
                IF req.editCount >= 10 THEN "severe"
                ELSE IF req.editCount >= 5 THEN "moderate"
                ELSE "inactive"

\* a plan with one heavy day met a total outage: the rule-based checks in
\* the error result still call it feasible
C37_Witness ==
  /\ req.fn = "checkFeasibility"
  /\ aiResult.type = "error"
  /\ result.settled
  /\ result.value.success = FALSE
  /\ result.value.ruleBasedChecks.heavyDays = <<"Monday">>
  /\ result.value.ruleBasedChecks.feasible

\* C38: within one callAI invocation the Gemini adapter and the Groq
\* adapter send at most one request each and never wait to try again: only
\* a HuggingFace request is followed by a backoff wait, and once callAI has
\* the answer to its Gemini or Groq request, that provider has returned its
\* text or has failed, whatever the answer was.
C38_OnlyHuggingFaceRetries ==
  /\ \A p \in {"gemini", "groq"} :
       /\ requests[p] <= 1
       /\ (requests[p] = 1 /\ ~(pc = "awaiting" /\ providers[idx] = p)) =>
            (returned[p].ok \/ p \in FailedProviders)
  /\ pc = "backoff" => providers[idx] = "huggingface"

\* Gemini and Groq each failed on an error response after one request,
\* while HuggingFace was asked again after its backoff wait
C38_Witness ==
  /\ req.fn = "callAI"
  /\ caught = <<[provider |-> "gemini", error |-> "http"],
                [provider |-> "groq", error |-> "http"]>>
  /\ requests["gemini"] = 1
  /\ requests["groq"] = 1
  /\ requests["huggingface"] = 2
  /\ pc = "awaiting"

====
